---------------------------- MODULE Spec2Model ----------------------------
(***************************************************************************)
(* A model of mdpredict-russian: the word taggers (morphology.rs,          *)
(* rsmorph.rs), the sentence segmenter and classifier (sentence.rs), the   *)
(* metric aggregator (analyzer.rs) and the discriminant classifier         *)
(* (classifier.rs).                                                        *)
(*                                                                         *)
(* A string is a sequence of characters.  A character is written as a      *)
(* short ASCII name: a Cyrillic letter by its transliteration ("ya", "m",  *)
(* "y", "i", "d", "u", "ch", "t", "o", ...; capitals in upper case), a     *)
(* Latin letter as "latA"/"lata", the en and em dashes as "endash" and     *)
(* "emdash", everything else as itself.                                    *)
(*                                                                         *)
(* An f64 percentage is a fixed-point integer in units of 0.01 percent, a  *)
(* discriminant score a fixed-point integer in units of 0.001, and a       *)
(* probability a fixed-point integer in units of 1/ProbScale.              *)
(***************************************************************************)
EXTENDS Integers, Sequences, FiniteSets, TLC

VARIABLES
    dict,       \* RsMorphAnalyzer.analyzer: the external dictionary, word -> parse
    pc,         \* the operation that ran last
    text,       \* its input string
    split,      \* Vec<String> returned by split_into_sentences
    sentences,  \* Vec<SentenceAnalysis> of analyze_sentence / analyze_text
    metrics,    \* TextMetrics returned by analyze, or handed to classify
    result,     \* ClassificationResult returned by classify
    trace,      \* what the last analyze call did: tagger and sentence-analyzer calls
    memo,       \* one remembered earlier analyze call: its text and its result
    tags        \* WordAnalysis of the last tagged word, by both taggers

vars == <<dict, pc, text, split, sentences, metrics, result, trace, memo, tags>>

(***************************************************************************)
(* Characters                                                              *)
(***************************************************************************)
CyrLower == {"a", "v", "d", "e", "yo", "i", "j", "k", "l", "m", "n", "o", "s",
             "t", "u", "ch", "sh", "y", "soft", "yu", "ya", "b", "g", "p", "r", "z"}
CyrUpper == {"A", "I", "K", "M", "YA", "S", "SOFT", "YU", "O"}
LatLower == {"lata", "latb", "latc"}
LatUpper == {"latA", "latB", "latC"}
Letters == CyrLower \cup CyrUpper \cup LatLower \cup LatUpper
Digits == {"3", "4"}
\* char::is_whitespace, and \s of the regex crate
Whitespace == {" "}
\* the class [.!?] of SENTENCE_SPLITTER
Terminal == {".", "!", "?"}
\* the class [,;:\-(en dash)(em dash)] of CLAUSE_BOUNDARY
ClauseMarks == {",", ";", ":", "-", "endash", "emdash"}

IsAlphabetic(c) == c \in Letters
IsAlphanumeric(c) == c \in Letters \cup Digits

\* char::to_lowercase
LowerChar(c) ==
    CASE c = "A" -> "a" [] c = "I" -> "i" [] c = "M" -> "m" [] c = "YA" -> "ya"
      [] c = "K" -> "k"
      [] c = "S" -> "s" [] c = "SOFT" -> "soft" [] c = "YU" -> "yu" [] c = "O" -> "o"
      [] c = "latA" -> "lata" [] c = "latB" -> "latb" [] c = "latC" -> "latc"
      [] OTHER -> c

\* str::to_lowercase
ToLowercase(w) == [i \in 1..Len(w) |-> LowerChar(w[i])]

\* the UTF-8 width of a character: str::len counts bytes
ByteLen(c) ==
    IF c \in CyrLower \cup CyrUpper THEN 2
    ELSE IF c \in {"endash", "emdash"} THEN 3
    ELSE 1

RECURSIVE StrLen(_)
\* str::len
StrLen(w) == IF w = <<>> THEN 0 ELSE ByteLen(Head(w)) + StrLen(Tail(w))

\* str::ends_with
EndsWith(w, suf) ==
    /\ Len(suf) <= Len(w)
    /\ SubSeq(w, Len(w) - Len(suf) + 1, Len(w)) = suf

\* dictionaries::ends_with_any
ends_with_any(w, endings) == \E e \in endings : EndsWith(w, e)

\* str::trim
RECURSIVE TrimStart(_)
TrimStart(s) ==
    IF s # <<>> /\ Head(s) \in Whitespace THEN TrimStart(Tail(s)) ELSE s

RECURSIVE TrimEnd(_)
TrimEnd(s) ==
    IF s # <<>> /\ s[Len(s)] \in Whitespace
    THEN TrimEnd(SubSeq(s, 1, Len(s) - 1))
    ELSE s

Trim(s) == TrimEnd(TrimStart(s))

RECURSIVE Concat(_)
\* the string spelled by a sequence of strings
Concat(ss) == IF ss = <<>> THEN <<>> ELSE Head(ss) \o Concat(Tail(ss))

(***************************************************************************)
(* The word lists of dictionaries.rs.  Each list holds the words the       *)
(* sources name for it (the field comments of metrics.rs, the tests of     *)
(* morphology.rs, rsmorph.rs and sentence.rs).                             *)
(***************************************************************************)
w_ya == <<"ya">>
w_my == <<"m", "y">>
w_i == <<"i">>
w_a == <<"a">>
w_chto == <<"ch", "t", "o">>
w_idu == <<"i", "d", "u">>
w_dom == <<"d", "o", "m">>
w_idti == <<"i", "d", "t", "i">>
w_dumayu == <<"d", "u", "m", "a", "yu">>
w_dumat == <<"d", "u", "m", "a", "t", "soft">>
w_sebya == <<"s", "e", "b", "ya">>
w_moj == <<"m", "o", "j">>
w_im == <<"i", "m">>
w_mama == <<"m", "a", "m", "a">>
w_moyus == <<"m", "o", "yu", "s", "soft">>

\* ya, menya, mne, mnoj, mnoyu
FIRST_PERSON_SINGULAR ==
    {w_ya, <<"m", "e", "n", "ya">>, <<"m", "n", "e">>, <<"m", "n", "o", "j">>,
     <<"m", "n", "o", "yu">>}
\* my, nas, nam, nami
FIRST_PERSON_PLURAL ==
    {w_my, <<"n", "a", "s">>, <<"n", "a", "m">>, <<"n", "a", "m", "i">>}
\* ty, tebya, tebe
SECOND_PERSON_SINGULAR ==
    {<<"t", "y">>, <<"t", "e", "b", "ya">>, <<"t", "e", "b", "e">>}
\* vy, vas, vam
SECOND_PERSON_PLURAL == {<<"v", "y">>, <<"v", "a", "s">>, <<"v", "a", "m">>}
\* on, ona, ono, emu, ej, im
THIRD_PERSON_SINGULAR ==
    {<<"o", "n">>, <<"o", "n", "a">>, <<"o", "n", "o">>, <<"e", "m", "u">>,
     <<"e", "j">>, w_im}
\* oni, im, imi
THIRD_PERSON_PLURAL == {<<"o", "n", "i">>, w_im, <<"i", "m", "i">>}
\* moj, moya, sebya, sebe, soboj
POSSESSIVE_FIRST_PERSON ==
    {w_moj, <<"m", "o", "ya">>, w_sebya, <<"s", "e", "b", "e">>,
     <<"s", "o", "b", "o", "j">>}
\* the reflexive forms singled out by get_pronoun_info: sebya, sebe, soboj, soboyu
ReflexiveForms ==
    {w_sebya, <<"s", "e", "b", "e">>, <<"s", "o", "b", "o", "j">>,
     <<"s", "o", "b", "o", "yu">>}
\* v, na, s, k
PREPOSITIONS == {<<"v">>, <<"n", "a">>, <<"s">>, <<"k">>}
\* i, a, no
COORDINATING_CONJUNCTIONS == {w_i, w_a, <<"n", "o">>}
\* chto, esli
SUBORDINATING_CONJUNCTIONS == {w_chto, <<"e", "s", "l", "i">>}
ALL_CONJUNCTIONS == COORDINATING_CONJUNCTIONS \cup SUBORDINATING_CONJUNCTIONS
\* dumayu, dumat', pomnyu
INTERNAL_PREDICATES == {w_dumayu, w_dumat, <<"p", "o", "m", "n", "yu">>}
\* idu, idti, shla, moyus'
EXTERNAL_PREDICATES == {w_idu, w_idti, <<"sh", "l", "a">>, w_moyus}
\* nu, vot
FILLER_WORDS == {<<"n", "u">>, <<"v", "o", "t">>}
\* vot, i
STOP_WORDS == {<<"v", "o", "t">>, w_i}
\* veselo, grustno
EMOTION_WORDS ==
    {<<"v", "e", "s", "e", "l", "o">>, <<"g", "r", "u", "s", "t", "n", "o">>}
\* mama, drug, vy: words of family and of address; the list is independent of
\* the pronoun lists and shares a word with one of them
SOCIAL_FAMILY_WORDS == {w_mama, <<"d", "r", "u", "g">>, <<"v", "y">>}
\* t', ti, ch', t'sya
INFINITIVE_ENDINGS ==
    {<<"t", "soft">>, <<"t", "i">>, <<"ch", "soft">>, <<"t", "soft", "s", "ya">>}
\* -shij, -nnyj, -myj
PARTICIPLE_ENDINGS ==
    {<<"sh", "i", "j">>, <<"n", "n", "y", "j">>, <<"m", "y", "j">>}
\* l, la, lo, li, lsya, las'
PAST_TENSE_ENDINGS ==
    {<<"l">>, <<"l", "a">>, <<"l", "o">>, <<"l", "i">>, <<"l", "s", "ya">>,
     <<"l", "a", "s", "soft">>}
\* ochen', tam
KNOWN_ADVERBS == {<<"o", "ch", "e", "n", "soft">>, <<"t", "a", "m">>}
\* -yj, -ij, -oj, -aya, -oe
ADJECTIVE_ENDINGS ==
    {<<"y", "j">>, <<"i", "j">>, <<"o", "j">>, <<"a", "ya">>, <<"o", "e">>}


(***************************************************************************)
(* The heuristic word tagger: morphology.rs                                *)
(***************************************************************************)
\* WordAnalysis::new
NewWordAnalysis(w) ==
    [word |-> w, lemma |-> <<>>, pos |-> "Unknown",
     verb_tense |-> "None", verb_form |-> "None", predicate_type |-> "None",
     pronoun_person |-> "None", pronoun_number |-> "None",
     is_filler |-> FALSE, is_stop_word |-> FALSE, is_emotion_word |-> FALSE,
     is_social_interaction |-> FALSE, is_egocentrism_marker |-> FALSE]

is_preposition(w) == w \in PREPOSITIONS
is_conjunction(w) == w \in ALL_CONJUNCTIONS
is_coordinating_conjunction(w) == ToLowercase(w) \in COORDINATING_CONJUNCTIONS
is_subordinating_conjunction(w) == ToLowercase(w) \in SUBORDINATING_CONJUNCTIONS

PronounInfoPluralFirst(w) ==
    IF w \in FIRST_PERSON_PLURAL THEN <<"First", "Plural">>
    ELSE IF w \in FIRST_PERSON_SINGULAR THEN <<"First", "Singular">>
    ELSE IF w \in SECOND_PERSON_PLURAL THEN <<"Second", "Plural">>
    ELSE IF w \in SECOND_PERSON_SINGULAR THEN <<"Second", "Singular">>
    ELSE IF w \in THIRD_PERSON_PLURAL THEN <<"Third", "Plural">>
    ELSE IF w \in THIRD_PERSON_SINGULAR THEN <<"Third", "Singular">>
    ELSE IF w \in POSSESSIVE_FIRST_PERSON
    THEN IF w \in ReflexiveForms
         THEN <<"Reflexive", "Unknown">>
         ELSE <<"First", "Unknown">>
    ELSE <<>>

\* Option<(PronounPerson, PronounNumber)>; <<>> is None
get_pronoun_info(w) ==
    IF w \in FIRST_PERSON_SINGULAR THEN <<"First", "Singular">>
    ELSE IF w \in FIRST_PERSON_PLURAL THEN <<"First", "Plural">>
    ELSE IF w \in SECOND_PERSON_SINGULAR THEN <<"Second", "Singular">>
    ELSE IF w \in SECOND_PERSON_PLURAL THEN <<"Second", "Plural">>
    ELSE IF w \in THIRD_PERSON_SINGULAR THEN <<"Third", "Singular">>
    ELSE IF w \in THIRD_PERSON_PLURAL THEN <<"Third", "Plural">>
    ELSE IF w \in POSSESSIVE_FIRST_PERSON
    THEN IF w \in ReflexiveForms
         THEN <<"Reflexive", "Unknown">>
         ELSE <<"First", "Unknown">>
    ELSE <<>>

GerundPatterns ==
    {<<"a", "ya">>, <<"ya", "ya">>, <<"i", "v">>, <<"a", "v">>, <<"e", "v">>,
     <<"u", "v">>, <<"y", "v", "a", "ya">>, <<"i", "v", "a", "ya">>,
     <<"v", "sh", "i", "s", "soft">>, <<"v", "sh", "i">>}

is_gerund(w) ==
    \E p \in GerundPatterns : EndsWith(w, p) /\ StrLen(w) > StrLen(p) + 2

PresentEndings ==
    {<<"yu">>, <<"e", "sh", "soft">>, <<"yo", "sh", "soft">>, <<"e", "t">>,
     <<"yo", "m">>, <<"e", "m">>, <<"e", "t", "e">>, <<"yu", "t">>, <<"u">>,
     <<"i", "sh", "soft">>, <<"i", "t">>, <<"i", "m">>, <<"i", "t", "e">>,
     <<"ya", "t">>, <<"a", "t">>}

looks_like_present_tense(w) ==
    \E e \in PresentEndings :
        /\ EndsWith(w, e)
        /\ StrLen(w) > StrLen(e) + 2
        /\ SubSeq(w, 1, Len(w) - Len(e)) # <<>>

DetermineTenseWithoutInfinitive(w) ==
    IF ends_with_any(w, PARTICIPLE_ENDINGS) THEN <<"Unknown", "Participle">>
    ELSE IF is_gerund(w) THEN <<"Unknown", "Gerund">>
    ELSE IF ends_with_any(w, PAST_TENSE_ENDINGS) THEN <<"Past", "Finite">>
    ELSE <<"Present", "Finite">>

determine_verb_tense_form(w) ==
    IF ends_with_any(w, INFINITIVE_ENDINGS) THEN <<"Infinitive", "Infinitive">>
    ELSE IF ends_with_any(w, PARTICIPLE_ENDINGS) THEN <<"Unknown", "Participle">>
    ELSE IF is_gerund(w) THEN <<"Unknown", "Gerund">>
    ELSE IF ends_with_any(w, PAST_TENSE_ENDINGS) THEN <<"Past", "Finite">>
    ELSE <<"Present", "Finite">>

\* Option<(VerbTense, VerbForm, PredicateType)>; <<>> is None
analyze_verb(w) ==
    LET is_internal == w \in INTERNAL_PREDICATES
        is_external == w \in EXTERNAL_PREDICATES
        pred_type == IF is_internal THEN "Internal"
                     ELSE IF is_external THEN "External" ELSE "Neither"
    IN  IF is_internal \/ is_external
        THEN determine_verb_tense_form(w) \o <<pred_type>>
        ELSE IF ends_with_any(w, INFINITIVE_ENDINGS)
        THEN <<"Infinitive", "Infinitive", pred_type>>
        ELSE IF ends_with_any(w, PARTICIPLE_ENDINGS)
        THEN <<"Unknown", "Participle", pred_type>>
        ELSE IF is_gerund(w)
        THEN <<"Unknown", "Gerund", pred_type>>
        ELSE IF ends_with_any(w, PAST_TENSE_ENDINGS) /\ StrLen(w) > 3
        THEN <<"Past", "Finite", pred_type>>
        ELSE IF looks_like_present_tense(w)
        THEN <<"Present", "Finite", pred_type>>
        ELSE <<>>

\* the slice &word[..word.len() - 2] drops the final two-byte letter
is_adverb(w) ==
    \/ w \in KNOWN_ADVERBS
    \/ /\ StrLen(w) > 4
       /\ EndsWith(w, <<"o">>) \/ EndsWith(w, <<"e">>)
       /\ StrLen(w) - 2 > 3

is_adjective(w) == ends_with_any(w, ADJECTIVE_ENDINGS) /\ StrLen(w) > 4

is_noun(w) == StrLen(w) > 2

is_egocentrism_marker(w) ==
    w \in FIRST_PERSON_SINGULAR \/ w \in POSSESSIVE_FIRST_PERSON

is_social_interaction_word(w) ==
    \/ w \in FIRST_PERSON_PLURAL
    \/ EndsWith(w, <<"e", "m">>) \/ EndsWith(w, <<"i", "m">>)
    \/ EndsWith(w, <<"yo", "m">>)

MorphAnalyzeSuffixesFirst(word) ==
    LET w == ToLowercase(word)
        a0 == [NewWordAnalysis(w) EXCEPT
                 !.is_filler = w \in FILLER_WORDS,
                 !.is_stop_word = w \in STOP_WORDS,
                 !.is_emotion_word = w \in EMOTION_WORDS,
                 !.is_egocentrism_marker = is_egocentrism_marker(w)]
        pron == get_pronoun_info(w)
        verb == analyze_verb(w)
        a1 == IF verb # <<>>
              THEN [a0 EXCEPT !.pos = "Verb", !.verb_tense = verb[1],
                              !.verb_form = verb[2], !.predicate_type = verb[3]]
              ELSE IF is_preposition(w) THEN [a0 EXCEPT !.pos = "Preposition"]
              ELSE IF is_conjunction(w) THEN [a0 EXCEPT !.pos = "Conjunction"]
              ELSE IF pron # <<>>
              THEN [a0 EXCEPT !.pos = "Pronoun", !.pronoun_person = pron[1],
                              !.pronoun_number = pron[2]]
              ELSE IF is_adverb(w) THEN [a0 EXCEPT !.pos = "Adverb"]
              ELSE IF is_adjective(w) THEN [a0 EXCEPT !.pos = "Adjective"]
              ELSE IF is_noun(w) THEN [a0 EXCEPT !.pos = "Noun"]
              ELSE a0
    IN  [a1 EXCEPT !.is_social_interaction = is_social_interaction_word(w)]

\* MorphAnalyzer::analyze
MorphAnalyze(word) ==
    LET w == ToLowercase(word)
        a0 == [NewWordAnalysis(w) EXCEPT
                 !.is_filler = w \in FILLER_WORDS,
                 !.is_stop_word = w \in STOP_WORDS,
                 !.is_emotion_word = w \in EMOTION_WORDS,
                 !.is_egocentrism_marker = is_egocentrism_marker(w)]
        pron == get_pronoun_info(w)
        verb == analyze_verb(w)
        a1 == IF is_preposition(w) THEN [a0 EXCEPT !.pos = "Preposition"]
              ELSE IF is_conjunction(w) THEN [a0 EXCEPT !.pos = "Conjunction"]
              ELSE IF pron # <<>>
              THEN [a0 EXCEPT !.pos = "Pronoun", !.pronoun_person = pron[1],
                              !.pronoun_number = pron[2]]
              ELSE IF verb # <<>>
              THEN [a0 EXCEPT !.pos = "Verb", !.verb_tense = verb[1],
                              !.verb_form = verb[2], !.predicate_type = verb[3]]
              ELSE IF is_adverb(w) THEN [a0 EXCEPT !.pos = "Adverb"]
              ELSE IF is_adjective(w) THEN [a0 EXCEPT !.pos = "Adjective"]
              ELSE IF is_noun(w) THEN [a0 EXCEPT !.pos = "Noun"]
              ELSE a0
    IN  [a1 EXCEPT !.is_social_interaction = is_social_interaction_word(w)]


(***************************************************************************)
(* The sentence segmenter and classifier: sentence.rs                      *)
(***************************************************************************)
RECURSIVE SkipWhile(_, _, _)
\* the first index from i on whose character is not in class (Len(s) + 1 if none)
SkipWhile(s, i, class) ==
    IF i <= Len(s) /\ s[i] \in class THEN SkipWhile(s, i + 1, class) ELSE i

RECURSIVE RegexSplit(_, _, _)
\* SENTENCE_SPLITTER.split: the pieces between the leftmost, longest matches
\* of [.!?]+\s*, the empty pieces included; cur is the piece being read
RegexSplit(s, i, cur) ==
    IF i > Len(s) THEN <<cur>>
    ELSE IF s[i] \in Terminal
    THEN <<cur>> \o RegexSplit(s, SkipWhile(s, SkipWhile(s, i, Terminal), Whitespace), <<>>)
    ELSE RegexSplit(s, i + 1, Append(cur, s[i]))

RECURSIVE TrimNonEmpty(_)
\* .map(|s| s.trim().to_string()).filter(|s| !s.is_empty())
TrimNonEmpty(pieces) ==
    IF pieces = <<>> THEN <<>>
    ELSE LET t == Trim(Head(pieces))
         IN  (IF t = <<>> THEN <<>> ELSE <<t>>) \o TrimNonEmpty(Tail(pieces))

SplitKeepsEmptyFragments(t) ==
    LET cleaned == Trim(t)
        pieces == RegexSplit(cleaned, 1, <<>>)
    IN  IF cleaned = <<>> THEN <<>>
        ELSE [i \in 1..Len(pieces) |-> Trim(pieces[i])]

SplitDropsUnterminated(t) ==
    LET cleaned == Trim(t)
        pieces == RegexSplit(cleaned, 1, <<>>)
    IN  IF cleaned = <<>> THEN <<>>
        ELSE TrimNonEmpty(SubSeq(pieces, 1, Len(pieces) - 1))

\* SentenceAnalyzer::split_into_sentences
split_into_sentences(t) ==
    LET cleaned == Trim(t)
    IN  IF cleaned = <<>> THEN <<>>
        ELSE TrimNonEmpty(RegexSplit(cleaned, 1, <<>>))

RECURSIVE SplitNonAlnum(_, _, _)
\* sentence.split(|c| !c.is_alphanumeric()), the empty pieces included
SplitNonAlnum(s, i, cur) ==
    IF i > Len(s) THEN <<cur>>
    ELSE IF IsAlphanumeric(s[i])
    THEN SplitNonAlnum(s, i + 1, Append(cur, s[i]))
    ELSE <<cur>> \o SplitNonAlnum(s, i + 1, <<>>)

RECURSIVE LowerNonEmpty(_)
\* .map(str::to_lowercase).filter(|s| !s.is_empty())
LowerNonEmpty(pieces) ==
    IF pieces = <<>> THEN <<>>
    ELSE (IF Head(pieces) = <<>> THEN <<>> ELSE <<ToLowercase(Head(pieces))>>)
             \o LowerNonEmpty(Tail(pieces))

\* SentenceAnalyzer::extract_words
sentence_extract_words(s) == LowerNonEmpty(SplitNonAlnum(s, 1, <<>>))

has_coordinating_conjunction(ws) ==
    \E i \in 1..Len(ws) : is_coordinating_conjunction(ws[i])

has_subordinating_conjunction(ws) ==
    \E i \in 1..Len(ws) : is_subordinating_conjunction(ws[i])

RECURSIVE CountVerbs(_)
\* the loop of count_potential_verbs
CountVerbs(ws) ==
    IF ws = <<>> THEN 0
    ELSE (IF MorphAnalyze(Head(ws)).pos = "Verb" THEN 1 ELSE 0) + CountVerbs(Tail(ws))

Max(a, b) == IF a >= b THEN a ELSE b
Min(a, b) == IF a <= b THEN a ELSE b

count_potential_verbs(ws) == Max(CountVerbs(ws), 1)

CountCoordinatingOnly(ws) ==
    Cardinality({i \in 1..Len(ws) : is_coordinating_conjunction(ws[i])})

RECURSIVE CountConjunctions(_)
CountConjunctions(ws) ==
    IF ws = <<>> THEN 0
    ELSE (IF is_coordinating_conjunction(Head(ws))
             \/ is_subordinating_conjunction(Head(ws)) THEN 1 ELSE 0)
         + CountConjunctions(Tail(ws))

EstimateClauseCountTakesMax(ws, clause_boundaries) ==
    LET verb_count == count_potential_verbs(ws)
        punct_estimate == IF clause_boundaries > 0 THEN clause_boundaries + 1 ELSE 1
        conj_count == CountConjunctions(ws)
        base_estimate == Max(Max(verb_count, punct_estimate), 1)
    IN  IF conj_count > 0 /\ base_estimate = 1
        THEN conj_count + 1
        ELSE base_estimate

EstimateClauseCountNoFloor(ws, clause_boundaries) ==
    LET verb_count == CountVerbs(ws)
        punct_estimate == IF clause_boundaries > 0 THEN clause_boundaries + 1 ELSE 1
        conj_count == CountConjunctions(ws)
        base_estimate == Min(verb_count, punct_estimate)
    IN  IF conj_count > 0 /\ base_estimate = 1
        THEN conj_count + 1
        ELSE base_estimate

EstimateClauseCountVerbsOnly(ws, clause_boundaries) ==
    LET verb_count == count_potential_verbs(ws)
        conj_count == CountConjunctions(ws)
        base_estimate == Max(verb_count, 1)
    IN  IF conj_count > 0 /\ base_estimate = 1
        THEN conj_count + 1
        ELSE base_estimate

\* SentenceAnalyzer::estimate_clause_count
estimate_clause_count(ws, clause_boundaries) ==
    LET verb_count == count_potential_verbs(ws)
        punct_estimate == IF clause_boundaries > 0 THEN clause_boundaries + 1 ELSE 1
        conj_count == CountConjunctions(ws)
        base_estimate == Max(Min(verb_count, punct_estimate), 1)
    IN  IF conj_count > 0 /\ base_estimate = 1
        THEN conj_count + 1
        ELSE base_estimate

DetermineTypeCoordinatingFirst(clause_count, has_coordinating, has_subordinating) ==
    IF clause_count <= 1 THEN "Simple"
    ELSE IF has_coordinating THEN "Compound"
    ELSE IF has_subordinating THEN "Complex"
    ELSE "RunOn"

\* SentenceAnalyzer::determine_sentence_type
determine_sentence_type(clause_count, has_coordinating, has_subordinating) ==
    IF clause_count <= 1 THEN "Simple"
    ELSE IF has_subordinating THEN "Complex"
    ELSE IF has_coordinating THEN "Compound"
    ELSE "RunOn"

RECURSIVE CountIn(_, _)
\* CLAUSE_BOUNDARY.find_iter(sentence).count(): the matches are single characters
CountIn(s, class) ==
    IF s = <<>> THEN 0
    ELSE (IF Head(s) \in class THEN 1 ELSE 0) + CountIn(Tail(s), class)

analyze_sentence(s) ==
    LET ws == sentence_extract_words(s)
        has_coordinating == has_coordinating_conjunction(ws)
        has_subordinating == has_subordinating_conjunction(ws)
        clause_boundaries == CountIn(s, ClauseMarks)
        clause_count == estimate_clause_count(ws, clause_boundaries)
    IN  [text |-> s,
         sentence_type |->
             determine_sentence_type(clause_count, has_coordinating, has_subordinating),
         clause_count |-> clause_count,
         word_count |-> Len(ws),
         has_coordinating_conjunction |-> has_coordinating,
         has_subordinating_conjunction |-> has_subordinating]

analyze_text(t) ==
    LET ss == split_into_sentences(t)
    IN  [i \in 1..Len(ss) |-> analyze_sentence(ss[i])]


(***************************************************************************)
(* The dictionary-backed word tagger: rsmorph.rs.  The external analyzer   *)
(* (rsmorphy over the OpenCorpora dictionary) is the variable dict, a set  *)
(* of <<word, parse>> pairs with at most one pair per word; a parse is the *)
(* first Parsed of the word: its normal form and its grammemes.            *)
(***************************************************************************)
\* self.analyzer.parse(&word_lower): a Vec with the first parse, or empty
Parse(w) ==
    LET hits == {e \in dict : e[1] = w}
    IN  IF hits = {} THEN <<>> ELSE <<(CHOOSE e \in hits : TRUE)[2]>>

check_pronoun_dictionaries(w) ==
    IF w \in FIRST_PERSON_SINGULAR THEN <<"First", "Singular">>
    ELSE IF w \in FIRST_PERSON_PLURAL THEN <<"First", "Plural">>
    ELSE IF w \in SECOND_PERSON_SINGULAR THEN <<"Second", "Singular">>
    ELSE IF w \in SECOND_PERSON_PLURAL THEN <<"Second", "Plural">>
    ELSE IF w \in THIRD_PERSON_SINGULAR THEN <<"Third", "Singular">>
    ELSE IF w \in THIRD_PERSON_PLURAL THEN <<"Third", "Plural">>
    ELSE IF w \in POSSESSIVE_FIRST_PERSON
    THEN IF w \in ReflexiveForms
         THEN <<"Reflexive", "Unknown">>
         ELSE <<"First", "Unknown">>
    ELSE <<>>

has_grammeme(grammemes, tag) == tag \in grammemes

extract_pos(g) ==
    IF has_grammeme(g, "NOUN") THEN "Noun"
    ELSE IF \E t \in {"VERB", "INFN", "PRTF", "PRTS", "GRND"} : has_grammeme(g, t)
    THEN "Verb"
    ELSE IF has_grammeme(g, "ADJF") \/ has_grammeme(g, "ADJS") THEN "Adjective"
    ELSE IF has_grammeme(g, "ADVB") THEN "Adverb"
    ELSE IF has_grammeme(g, "NPRO") THEN "Pronoun"
    ELSE IF has_grammeme(g, "PREP") THEN "Preposition"
    ELSE IF has_grammeme(g, "CONJ") THEN "Conjunction"
    ELSE IF has_grammeme(g, "NUMR") THEN "Numeral"
    ELSE IF has_grammeme(g, "PRCL") THEN "Particle"
    ELSE IF has_grammeme(g, "INTJ") THEN "Interjection"
    ELSE "Unknown"

extract_verb_tense(g) ==
    IF has_grammeme(g, "INFN") THEN "Infinitive"
    ELSE IF has_grammeme(g, "past") THEN "Past"
    ELSE IF has_grammeme(g, "pres") THEN "Present"
    ELSE IF has_grammeme(g, "futr") THEN "Future"
    ELSE "Unknown"

extract_verb_form(g) ==
    IF has_grammeme(g, "INFN") THEN "Infinitive"
    ELSE IF has_grammeme(g, "PRTF") \/ has_grammeme(g, "PRTS") THEN "Participle"
    ELSE IF has_grammeme(g, "GRND") THEN "Gerund"
    ELSE IF has_grammeme(g, "VERB") THEN "Finite"
    ELSE "Unknown"

is_first_person_plural(g) == has_grammeme(g, "1per") /\ has_grammeme(g, "plur")

check_predicate_type(w, lemma) ==
    IF w \in INTERNAL_PREDICATES \/ lemma \in INTERNAL_PREDICATES THEN "Internal"
    ELSE IF w \in EXTERNAL_PREDICATES \/ lemma \in EXTERNAL_PREDICATES THEN "External"
    ELSE "Neither"

\* RsMorphAnalyzer::is_active_voice: the suffixes -sya and -s', in lower case
is_active_voice(word) ==
    ~EndsWith(word, <<"s", "ya">>) /\ ~EndsWith(word, <<"s", "soft">>)

RsAnalyzeParsedDictionaryFirst(w, a0) ==
    LET parses == Parse(w)
        predicate_type == check_predicate_type(w, w)
        a1 == IF predicate_type # "Neither"
              THEN [a0 EXCEPT !.predicate_type = predicate_type,
                              !.pos = IF a0.pos \in {"Unknown", "Conjunction"}
                                      THEN "Verb" ELSE a0.pos]
              ELSE a0
    IN  IF parses = <<>> THEN a1
        ELSE
        LET g == parses[1].grammemes
            a2 == [a1 EXCEPT !.lemma = <<parses[1].normal_form>>]
            a3 == [a2 EXCEPT !.pos = extract_pos(g)]
            pred_type == check_predicate_type(w, parses[1].normal_form)
            a4 == IF a3.pos = "Verb"
                  THEN [a3 EXCEPT
                          !.verb_tense = extract_verb_tense(g),
                          !.verb_form = extract_verb_form(g),
                          !.predicate_type =
                              IF a3.predicate_type = "None" /\ pred_type # "Neither"
                              THEN pred_type ELSE a3.predicate_type]
                  ELSE a3
        IN  IF a4.pos = "Verb" /\ is_first_person_plural(g)
            THEN [a4 EXCEPT !.is_social_interaction = TRUE]
            ELSE a4

\* the part of RsMorphAnalyzer::analyze after the pronoun check returned None
RsAnalyzeParsed(w, a0) ==
    LET parses == Parse(w)
        predicate_type == check_predicate_type(w, w)
        a1 == IF predicate_type # "Neither"
              THEN [a0 EXCEPT !.predicate_type = predicate_type,
                              !.pos = IF a0.pos \in {"Unknown", "Conjunction"}
                                      THEN "Verb" ELSE a0.pos]
              ELSE a0
    IN  IF parses = <<>> THEN a1
        ELSE
        LET g == parses[1].grammemes
            a2 == [a1 EXCEPT !.lemma = <<parses[1].normal_form>>]
            a3 == IF a2.predicate_type = "None"
                  THEN [a2 EXCEPT !.pos = extract_pos(g)] ELSE a2
            pred_type == check_predicate_type(w, parses[1].normal_form)
            a4 == IF a3.pos = "Verb"
                  THEN [a3 EXCEPT
                          !.verb_tense = extract_verb_tense(g),
                          !.verb_form = extract_verb_form(g),
                          !.predicate_type =
                              IF a3.predicate_type = "None" /\ pred_type # "Neither"
                              THEN pred_type ELSE a3.predicate_type]
                  ELSE a3
        IN  IF a4.pos = "Verb" /\ is_first_person_plural(g)
            THEN [a4 EXCEPT !.is_social_interaction = TRUE]
            ELSE a4

RsAnalyzeEgocentrismSingularOnly(word) ==
    LET w == ToLowercase(word)
        a0 == [NewWordAnalysis(w) EXCEPT
                 !.is_filler = w \in FILLER_WORDS,
                 !.is_stop_word = w \in STOP_WORDS,
                 !.is_emotion_word = w \in EMOTION_WORDS,
                 !.is_egocentrism_marker = w \in FIRST_PERSON_SINGULAR,
                 !.is_social_interaction = w \in SOCIAL_FAMILY_WORDS]
        pron == check_pronoun_dictionaries(w)
    IN  IF pron # <<>>
        THEN [a0 EXCEPT !.pos = "Pronoun",
                        !.pronoun_person = pron[1],
                        !.pronoun_number = pron[2],
                        !.is_social_interaction =
                            pron[1] = "First" /\ pron[2] = "Plural"]
        ELSE RsAnalyzeParsed(w, a0)

\* RsMorphAnalyzer::analyze
RsAnalyze(word) ==
    LET w == ToLowercase(word)
        a0 == [NewWordAnalysis(w) EXCEPT
                 !.is_filler = w \in FILLER_WORDS,
                 !.is_stop_word = w \in STOP_WORDS,
                 !.is_emotion_word = w \in EMOTION_WORDS,
                 !.is_egocentrism_marker =
                     w \in FIRST_PERSON_SINGULAR \/ w \in POSSESSIVE_FIRST_PERSON,
                 !.is_social_interaction = w \in SOCIAL_FAMILY_WORDS]
        pron == check_pronoun_dictionaries(w)
    IN  IF pron # <<>>
        THEN [a0 EXCEPT !.pos = "Pronoun",
                        !.pronoun_person = pron[1],
                        !.pronoun_number = pron[2],
                        !.is_social_interaction =
                            pron[1] = "First" /\ pron[2] = "Plural"]
        ELSE RsAnalyzeParsed(w, a0)


(***************************************************************************)
(* The metric aggregator: analyzer.rs, metrics.rs                          *)
(***************************************************************************)
\* 100.0 in the fixed-point unit of a percentage (0.01 percent)
Hundred == 10000

\* TextMetrics::percentage
percentage(count, total) ==
    IF total = 0 THEN 0 ELSE (count * Hundred) \div total

PercentFields ==
    {"lexical_diversity_index", "external_predicates", "internal_predicates",
     "active_voice_verbs", "past_tense_verbs", "present_tense_verbs",
     "future_tense_verbs", "infinitives", "non_finite_verb_forms", "adjectives",
     "nouns", "adverbs", "first_person_singular_pronouns",
     "first_person_plural_pronouns", "second_person_singular_pronouns",
     "second_person_plural_pronouns", "third_person_singular_pronouns",
     "third_person_plural_pronouns", "filler_words_index", "stop_words_index",
     "prepositions", "conjunctions", "social_interaction_words", "emotion_words",
     "egocentrism_index"}

CountFields ==
    {"total_words", "total_sentences", "run_on_sentences", "compound_sentences",
     "complex_sentences", "simple_sentences"}

\* TextMetrics::new: every field at its zero default
NewTextMetrics == [f \in PercentFields \cup CountFields |-> 0]

\* ReferenceValues::schizophrenia, ::healthy, ::personality_disorder,
\* ::bipolar_disorder: the field metrics (Table 2 means), percentages in units
\* of 0.01 percent
ReferenceValues(group) ==
    CASE group = "Schizophrenia" ->
           [NewTextMetrics EXCEPT
              !.total_words = 19,
              !.run_on_sentences = 0,
              !.compound_sentences = 0,
              !.complex_sentences = 0,
              !.simple_sentences = 2,
              !.lexical_diversity_index = 7361,
              !.external_predicates = 1333,
              !.internal_predicates = 287,
              !.active_voice_verbs = 1502,
              !.past_tense_verbs = 1069,
              !.present_tense_verbs = 308,
              !.future_tense_verbs = 26,
              !.infinitives = 156,
              !.non_finite_verb_forms = 41,
              !.adjectives = 560,
              !.nouns = 3525,
              !.adverbs = 285,
              !.first_person_singular_pronouns = 463,
              !.first_person_plural_pronouns = 52,
              !.second_person_singular_pronouns = 30,
              !.second_person_plural_pronouns = 0,
              !.third_person_singular_pronouns = 62,
              !.third_person_plural_pronouns = 5,
              !.filler_words_index = 52,
              !.stop_words_index = 22,
              !.prepositions = 1458,
              !.conjunctions = 471,
              !.social_interaction_words = 102,
              !.emotion_words = 77,
              !.egocentrism_index = 999]
      [] group = "Healthy" ->
           [NewTextMetrics EXCEPT
              !.total_words = 85,
              !.run_on_sentences = 1,
              !.compound_sentences = 1,
              !.complex_sentences = 1,
              !.simple_sentences = 5,
              !.lexical_diversity_index = 6460,
              !.external_predicates = 1026,
              !.internal_predicates = 661,
              !.active_voice_verbs = 1459,
              !.past_tense_verbs = 955,
              !.present_tense_verbs = 480,
              !.future_tense_verbs = 24,
              !.infinitives = 132,
              !.non_finite_verb_forms = 80,
              !.adjectives = 757,
              !.nouns = 2651,
              !.adverbs = 541,
              !.first_person_singular_pronouns = 674,
              !.first_person_plural_pronouns = 65,
              !.second_person_singular_pronouns = 0,
              !.second_person_plural_pronouns = 0,
              !.third_person_singular_pronouns = 101,
              !.third_person_plural_pronouns = 52,
              !.filler_words_index = 47,
              !.stop_words_index = 19,
              !.prepositions = 1090,
              !.conjunctions = 589,
              !.social_interaction_words = 86,
              !.emotion_words = 99,
              !.egocentrism_index = 1209]
      [] group = "PersonalityDisorder" ->
           [NewTextMetrics EXCEPT
              !.total_words = 22,
              !.run_on_sentences = 1,
              !.compound_sentences = 0,
              !.complex_sentences = 0,
              !.simple_sentences = 1,
              !.lexical_diversity_index = 7195,
              !.external_predicates = 1359,
              !.internal_predicates = 548,
              !.active_voice_verbs = 1447,
              !.past_tense_verbs = 760,
              !.present_tense_verbs = 677,
              !.future_tense_verbs = 23,
              !.infinitives = 74,
              !.non_finite_verb_forms = 63,
              !.adjectives = 524,
              !.nouns = 3136,
              !.adverbs = 416,
              !.first_person_singular_pronouns = 706,
              !.first_person_plural_pronouns = 98,
              !.second_person_singular_pronouns = 42,
              !.second_person_plural_pronouns = 20,
              !.third_person_singular_pronouns = 186,
              !.third_person_plural_pronouns = 6,
              !.filler_words_index = 27,
              !.stop_words_index = 17,
              !.prepositions = 1340,
              !.conjunctions = 502,
              !.social_interaction_words = 215,
              !.emotion_words = 143,
              !.egocentrism_index = 1036]
      [] group = "BipolarDisorder" ->
           [NewTextMetrics EXCEPT
              !.total_words = 25,
              !.run_on_sentences = 0,
              !.compound_sentences = 0,
              !.complex_sentences = 0,
              !.simple_sentences = 2,
              !.lexical_diversity_index = 6982,
              !.external_predicates = 1428,
              !.internal_predicates = 388,
              !.active_voice_verbs = 1433,
              !.past_tense_verbs = 862,
              !.present_tense_verbs = 610,
              !.future_tense_verbs = 38,
              !.infinitives = 88,
              !.non_finite_verb_forms = 184,
              !.adjectives = 523,
              !.nouns = 3354,
              !.adverbs = 372,
              !.first_person_singular_pronouns = 865,
              !.first_person_plural_pronouns = 92,
              !.second_person_singular_pronouns = 10,
              !.second_person_plural_pronouns = 0,
              !.third_person_singular_pronouns = 44,
              !.third_person_plural_pronouns = 38,
              !.filler_words_index = 89,
              !.stop_words_index = 21,
              !.prepositions = 1765,
              !.conjunctions = 449,
              !.social_interaction_words = 143,
              !.emotion_words = 172,
              !.egocentrism_index = 1083]

CounterFields ==
    {"nouns", "adjectives", "adverbs", "prepositions", "conjunctions",
     "first_person_singular", "first_person_plural", "second_person_singular",
     "second_person_plural", "third_person_singular", "third_person_plural",
     "past_tense", "present_tense", "future_tense", "infinitives",
     "non_finite_forms", "active_voice", "external_predicates",
     "internal_predicates", "filler_words", "stop_words", "emotion_words",
     "social_interaction_words", "egocentrism_markers"}

CountersOfLastCall == trace.counters

\* WordCounters::default
NewWordCounters == [f \in CounterFields |-> 0]

\* counters.<f> += 1 when cond
Bump(c, f, cond) == IF cond THEN [c EXCEPT ![f] = @ + 1] ELSE c

\* the Unicode word-break classes (UAX #29) of the characters that may stand
\* inside a word between two letters or between two digits
MidLetterQ == {":", "."}
MidNumQ == {",", ";", "."}

RECURSIVE UnicodeWords(_, _, _)
\* str::unicode_words: the maximal runs of letters and digits, a run going on
\* through one MidLetterQ between letters or one MidNumQ between digits;
\* cur is the word being read
UnicodeWords(s, i, cur) ==
    IF i > Len(s) THEN IF cur = <<>> THEN <<>> ELSE <<cur>>
    ELSE IF IsAlphanumeric(s[i]) THEN UnicodeWords(s, i + 1, Append(cur, s[i]))
    ELSE IF /\ cur # <<>>
            /\ i < Len(s)
            /\ \/ /\ cur[Len(cur)] \in Letters
                  /\ s[i] \in MidLetterQ
                  /\ s[i + 1] \in Letters
               \/ /\ cur[Len(cur)] \in Digits
                  /\ s[i] \in MidNumQ
                  /\ s[i + 1] \in Digits
    THEN UnicodeWords(s, i + 1, Append(cur, s[i]))
    ELSE (IF cur = <<>> THEN <<>> ELSE <<cur>>) \o UnicodeWords(s, i + 1, <<>>)

ExtractWordsKeepsNumbers(t) == UnicodeWords(t, 1, <<>>)

\* TextAnalyzer::extract_words
extract_words(t) ==
    SelectSeq(UnicodeWords(t, 1, <<>>),
              LAMBDA w : \E i \in 1..Len(w) : IsAlphabetic(w[i]))

CountPronounFallsThrough(a, c) ==
    LET c1 == Bump(c, "first_person_singular",
                   a.pronoun_person = "First" /\ a.pronoun_number = "Singular")
        c2 == Bump(c1, "first_person_plural",
                   a.pronoun_person = "First" /\ a.pronoun_number = "Plural")
    IN  Bump(c2, "first_person_singular",
             a.pronoun_person \in {"First", "Reflexive"})

\* TextAnalyzer::count_pronoun
count_pronoun(a, c) ==
    LET pn == <<a.pronoun_person, a.pronoun_number>>
    IN  IF pn = <<"First", "Singular">> THEN Bump(c, "first_person_singular", TRUE)
        ELSE IF pn = <<"First", "Plural">> THEN Bump(c, "first_person_plural", TRUE)
        ELSE IF pn = <<"Second", "Singular">> THEN Bump(c, "second_person_singular", TRUE)
        ELSE IF pn = <<"Second", "Plural">> THEN Bump(c, "second_person_plural", TRUE)
        ELSE IF pn = <<"Third", "Singular">> THEN Bump(c, "third_person_singular", TRUE)
        ELSE IF pn = <<"Third", "Plural">> THEN Bump(c, "third_person_plural", TRUE)
        ELSE IF pn = <<"First", "Unknown">> THEN Bump(c, "first_person_singular", TRUE)
        ELSE IF a.pronoun_person = "Reflexive" THEN Bump(c, "first_person_singular", TRUE)
        ELSE c

count_verb(a, word, c) ==
    LET c1 == IF a.verb_tense = "Past" THEN Bump(c, "past_tense", TRUE)
              ELSE IF a.verb_tense = "Present" THEN Bump(c, "present_tense", TRUE)
              ELSE IF a.verb_tense = "Future" THEN Bump(c, "future_tense", TRUE)
              ELSE IF a.verb_tense = "Infinitive" THEN Bump(c, "infinitives", TRUE)
              ELSE c
        c2 == Bump(c1, "non_finite_forms", a.verb_form \in {"Participle", "Gerund"})
        c3 == IF a.predicate_type = "External" THEN Bump(c2, "external_predicates", TRUE)
              ELSE IF a.predicate_type = "Internal" THEN Bump(c2, "internal_predicates", TRUE)
              ELSE c2
    IN  Bump(c3, "active_voice", is_active_voice(word))

CountAnalysisVerbByDefault(c, a, word) ==
    LET c1 == IF a.pos = "Noun" THEN Bump(c, "nouns", TRUE)
              ELSE IF a.pos = "Adjective" THEN Bump(c, "adjectives", TRUE)
              ELSE IF a.pos = "Adverb" THEN Bump(c, "adverbs", TRUE)
              ELSE IF a.pos = "Preposition" THEN Bump(c, "prepositions", TRUE)
              ELSE IF a.pos = "Conjunction" THEN Bump(c, "conjunctions", TRUE)
              ELSE IF a.pos = "Pronoun" THEN count_pronoun(a, c)
              ELSE count_verb(a, word, c)
        c2 == Bump(c1, "filler_words", a.is_filler)
        c3 == Bump(c2, "stop_words", a.is_stop_word)
        c4 == Bump(c3, "emotion_words", a.is_emotion_word)
        c5 == Bump(c4, "social_interaction_words", a.is_social_interaction)
    IN  Bump(c5, "egocentrism_markers", a.is_egocentrism_marker)

\* the body of the loop over the words in analyze, after the word is tagged
CountAnalysis(c, a, word) ==
    LET c1 == IF a.pos = "Noun" THEN Bump(c, "nouns", TRUE)
              ELSE IF a.pos = "Adjective" THEN Bump(c, "adjectives", TRUE)
              ELSE IF a.pos = "Adverb" THEN Bump(c, "adverbs", TRUE)
              ELSE IF a.pos = "Preposition" THEN Bump(c, "prepositions", TRUE)
              ELSE IF a.pos = "Conjunction" THEN Bump(c, "conjunctions", TRUE)
              ELSE IF a.pos = "Pronoun" THEN count_pronoun(a, c)
              ELSE IF a.pos = "Verb" THEN count_verb(a, word, c)
              ELSE c
        c2 == Bump(c1, "filler_words", a.is_filler)
        c3 == Bump(c2, "stop_words", a.is_stop_word)
        c4 == Bump(c3, "emotion_words", a.is_emotion_word)
        c5 == Bump(c4, "social_interaction_words", a.is_social_interaction)
    IN  Bump(c5, "egocentrism_markers", a.is_egocentrism_marker)

\* the body of the loop over the words in analyze
CountWord(c, word) == CountAnalysis(c, RsAnalyze(word), word)

RECURSIVE CountWords(_, _)
\* for word in &words
CountWords(ws, c) ==
    IF ws = <<>> THEN c ELSE CountWords(Tail(ws), CountWord(c, Head(ws)))

counters_to_metrics(c, total, m) ==
    [m EXCEPT
       !.nouns = percentage(c.nouns, total),
       !.adjectives = percentage(c.adjectives, total),
       !.adverbs = percentage(c.adverbs, total),
       !.prepositions = percentage(c.prepositions, total),
       !.conjunctions = percentage(c.conjunctions, total),
       !.first_person_singular_pronouns = percentage(c.first_person_singular, total),
       !.first_person_plural_pronouns = percentage(c.first_person_plural, total),
       !.second_person_singular_pronouns = percentage(c.second_person_singular, total),
       !.second_person_plural_pronouns = percentage(c.second_person_plural, total),
       !.third_person_singular_pronouns = percentage(c.third_person_singular, total),
       !.third_person_plural_pronouns = percentage(c.third_person_plural, total),
       !.past_tense_verbs = percentage(c.past_tense, total),
       !.present_tense_verbs = percentage(c.present_tense, total),
       !.future_tense_verbs = percentage(c.future_tense, total),
       !.infinitives = percentage(c.infinitives, total),
       !.non_finite_verb_forms = percentage(c.non_finite_forms, total),
       !.active_voice_verbs = percentage(c.active_voice, total),
       !.external_predicates = percentage(c.external_predicates, total),
       !.internal_predicates = percentage(c.internal_predicates, total),
       !.filler_words_index = percentage(c.filler_words, total),
       !.stop_words_index = percentage(c.stop_words, total),
       !.emotion_words = percentage(c.emotion_words, total),
       !.social_interaction_words = percentage(c.social_interaction_words, total),
       !.egocentrism_index = percentage(c.egocentrism_markers, total)]

\* the number of analyses of each sentence type
TypeCountCompoundAlsoSimple(sa, ty) ==
    Cardinality({i \in 1..Len(sa) :
                    \/ sa[i].sentence_type = ty
                    \/ (ty = "Simple" /\ sa[i].sentence_type = "Compound")})

TypeCount(sa, ty) == Cardinality({i \in 1..Len(sa) : sa[i].sentence_type = ty})

\* the set of the lower-cased words: HashSet<String>
UniqueWordsCaseSensitive(ws) == {ws[i] : i \in 1..Len(ws)}

UniqueWords(ws) == {ToLowercase(ws[i]) : i \in 1..Len(ws)}


(***************************************************************************)
(* The discriminant classifier: classifier.rs.  A coefficient is held in   *)
(* hundredths, a raw score in thousandths, exp and the probabilities in    *)
(* units of 1/ProbScale.                                                   *)
(***************************************************************************)
\* 1.0 in the fixed-point unit of exp and of a probability
ProbScale == 10000

\* the f64 NaN that a division 0.0 / 0.0 gives
NaN == -1

Groups == <<"Healthy", "Schizophrenia", "PersonalityDisorder", "BipolarDisorder">>

\* f64::ln of 1..100, in thousandths
LnTable ==
    <<0, 693, 1099, 1386, 1609, 1792, 1946, 2079, 2197, 2303, 2398, 2485, 2565,
      2639, 2708, 2773, 2833, 2890, 2944, 2996, 3045, 3091, 3135, 3178, 3219,
      3258, 3296, 3332, 3367, 3401, 3434, 3466, 3497, 3526, 3555, 3584, 3611,
      3638, 3664, 3689, 3714, 3738, 3761, 3784, 3807, 3829, 3850, 3871, 3892,
      3912, 3932, 3951, 3970, 3989, 4007, 4025, 4043, 4060, 4078, 4094, 4111,
      4127, 4143, 4159, 4174, 4190, 4205, 4220, 4234, 4248, 4263, 4277, 4290,
      4304, 4317, 4331, 4344, 4357, 4369, 4382, 4394, 4407, 4419, 4431, 4443,
      4454, 4466, 4477, 4489, 4500, 4511, 4522, 4533, 4543, 4554, 4564, 4575,
      4585, 4595, 4605>>

Ln(n) == LnTable[n]

\* exp(-2^(j-1) / 1000) in units of 1/ProbScale, j = 1..14
ExpTable ==
    <<9990, 9980, 9960, 9920, 9841, 9685, 9380, 8799, 7741, 5993, 3592, 1290,
      166, 3>>

RECURSIVE ExpBits(_, _, _)
\* the product of the table entries of the binary digits of m
ExpBits(m, j, acc) ==
    IF m = 0 THEN acc
    ELSE ExpBits(m \div 2, j + 1,
                 IF m % 2 = 1
                 THEN (acc * ExpTable[j] + ProbScale \div 2) \div ProbScale
                 ELSE acc)

\* f64::exp of d <= 0 thousandths; it underflows to 0 below the table
Exp(d) == IF -d >= 16384 THEN 0 ELSE ExpBits(-d, 1, ProbScale)

\* FeatureVector::from_metrics
FromMetricsReadsEgocentrism(m) ==
    [log_volume |-> Ln(m.total_words + 1),
     non_finite_verbs |-> m.non_finite_verb_forms,
     first_person_sing |-> m.egocentrism_index,
     past_tense |-> m.past_tense_verbs,
     present_tense |-> m.present_tense_verbs,
     external_pred |-> m.external_predicates,
     internal_pred |-> m.internal_predicates,
     emotion_words |-> m.emotion_words,
     social_interaction |-> m.social_interaction_words,
     lexical_diversity |-> m.lexical_diversity_index]

from_metrics(m) ==
    [log_volume |-> Ln(m.total_words + 1),
     non_finite_verbs |-> m.non_finite_verb_forms,
     first_person_sing |-> m.first_person_singular_pronouns,
     past_tense |-> m.past_tense_verbs,
     present_tense |-> m.present_tense_verbs,
     external_pred |-> m.external_predicates,
     internal_pred |-> m.internal_predicates,
     emotion_words |-> m.emotion_words,
     social_interaction |-> m.social_interaction_words,
     lexical_diversity |-> m.lexical_diversity_index]

\* DiscriminantCoefficients::healthy, ::schizophrenia, ::personality_disorder,
\* ::bipolar_disorder, in hundredths
Coefficients(group) ==
    CASE group = "Healthy" ->
           [log_volume |-> 250, non_finite_verbs |-> 80, first_person_sing |-> 15,
            past_tense |-> -5, present_tense |-> 12, external_pred |-> -2,
            internal_pred |-> 18, emotion_words |-> 15, social_interaction |-> -5,
            lexical_diversity |-> -2, constant |-> -1200]
      [] group = "Schizophrenia" ->
           [log_volume |-> -200, non_finite_verbs |-> -50, first_person_sing |-> -15,
            past_tense |-> 20, present_tense |-> -25, external_pred |-> 5,
            internal_pred |-> -35, emotion_words |-> -40, social_interaction |-> -10,
            lexical_diversity |-> 4, constant |-> -200]
      [] group = "PersonalityDisorder" ->
           [log_volume |-> -80, non_finite_verbs |-> 5, first_person_sing |-> 8,
            past_tense |-> -5, present_tense |-> 15, external_pred |-> 5,
            internal_pred |-> 20, emotion_words |-> 20, social_interaction |-> 80,
            lexical_diversity |-> 2, constant |-> -400]
      [] group = "BipolarDisorder" ->
           [log_volume |-> -60, non_finite_verbs |-> 50, first_person_sing |-> 20,
            past_tense |-> 2, present_tense |-> 10, external_pred |-> 12,
            internal_pred |-> -10, emotion_words |-> 35, social_interaction |-> -20,
            lexical_diversity |-> 1, constant |-> -550]

ScoreWithoutConstant(c, f) ==
    (c.log_volume * f.log_volume
     + 10 * (c.non_finite_verbs * f.non_finite_verbs
             + c.first_person_sing * f.first_person_sing
             + c.past_tense * f.past_tense
             + c.present_tense * f.present_tense
             + c.external_pred * f.external_pred
             + c.internal_pred * f.internal_pred
             + c.emotion_words * f.emotion_words
             + c.social_interaction * f.social_interaction
             + c.lexical_diversity * f.lexical_diversity)) \div 100

\* DiscriminantCoefficients::score, in thousandths: the sum is taken in units
\* of 0.00001 (hundredths times thousandths, hundredths times 0.01 percent)
score(c, f) ==
    (c.log_volume * f.log_volume
     + 10 * (c.non_finite_verbs * f.non_finite_verbs
             + c.first_person_sing * f.first_person_sing
             + c.past_tense * f.past_tense
             + c.present_tense * f.present_tense
             + c.external_pred * f.external_pred
             + c.internal_pred * f.internal_pred
             + c.emotion_words * f.emotion_words
             + c.social_interaction * f.social_interaction
             + c.lexical_diversity * f.lexical_diversity)
     + 1000 * c.constant) \div 100

\* the raw discriminant scores of compute_lda_scores
raw_lda_scores(m) ==
    LET f == from_metrics(m)
    IN  [healthy |-> score(Coefficients("Healthy"), f),
         schizophrenia |-> score(Coefficients("Schizophrenia"), f),
         personality_disorder |-> score(Coefficients("PersonalityDisorder"), f),
         bipolar_disorder |-> score(Coefficients("BipolarDisorder"), f)]

\* an f64 division, rounded to the nearest unit; 0.0 / 0.0 is NaN
Div(a, b) == IF b = 0 THEN NaN ELSE (a * ProbScale + b \div 2) \div b

SoftmaxDropsLastTerm(s) ==
    LET max_score == Max(Max(Max(s.healthy, s.schizophrenia), s.personality_disorder),
                         s.bipolar_disorder)
        exp_healthy == Exp(s.healthy - max_score)
        exp_schiz == Exp(s.schizophrenia - max_score)
        exp_pd == Exp(s.personality_disorder - max_score)
        exp_bipolar == Exp(s.bipolar_disorder - max_score)
        total == exp_healthy + exp_schiz + exp_pd
    IN  [healthy |-> Div(exp_healthy, total),
         schizophrenia |-> Div(exp_schiz, total),
         personality_disorder |-> Div(exp_pd, total),
         bipolar_disorder |-> Div(exp_bipolar, total)]

softmax_scores(s) ==
    LET max_score == Max(Max(Max(s.healthy, s.schizophrenia), s.personality_disorder),
                         s.bipolar_disorder)
        exp_healthy == Exp(s.healthy - max_score)
        exp_schiz == Exp(s.schizophrenia - max_score)
        exp_pd == Exp(s.personality_disorder - max_score)
        exp_bipolar == Exp(s.bipolar_disorder - max_score)
        total == exp_healthy + exp_schiz + exp_pd + exp_bipolar
    IN  [healthy |-> Div(exp_healthy, total),
         schizophrenia |-> Div(exp_schiz, total),
         personality_disorder |-> Div(exp_pd, total),
         bipolar_disorder |-> Div(exp_bipolar, total)]

compute_lda_scores(m) == softmax_scores(raw_lda_scores(m))

PrimaryLastOfTied(s) ==
    LET b1 == IF s.schizophrenia >= s.healthy
              THEN <<"Schizophrenia", s.schizophrenia>>
              ELSE <<"Healthy", s.healthy>>
        b2 == IF s.personality_disorder >= b1[2]
              THEN <<"PersonalityDisorder", s.personality_disorder>> ELSE b1
    IN  IF s.bipolar_disorder >= b2[2]
        THEN <<"BipolarDisorder", s.bipolar_disorder>> ELSE b2

\* (best_group, best_score)
get_primary_diagnosis(s) ==
    LET b1 == IF s.schizophrenia > s.healthy
              THEN <<"Schizophrenia", s.schizophrenia>>
              ELSE <<"Healthy", s.healthy>>
        b2 == IF s.personality_disorder > b1[2]
              THEN <<"PersonalityDisorder", s.personality_disorder>> ELSE b1
    IN  IF s.bipolar_disorder > b2[2]
        THEN <<"BipolarDisorder", s.bipolar_disorder>> ELSE b2

\* Classifier::classify
classify(m) ==
    LET scores == compute_lda_scores(m)
        best == get_primary_diagnosis(scores)
    IN  [primary_diagnosis |-> best[1], confidence |-> best[2],
         group_scores |-> scores]


(***************************************************************************)
(* TextAnalyzer::analyze and the calls on the library.                     *)
(***************************************************************************)
\* TextAnalyzer::analyze: the metrics returned, with what the call did on the
\* way: the sentence analyses, the words handed to the tagger, the counters
\* at the end of the loop, and whether it returned at the early return
AnalyzeFull(words, sentence_analyses, counters) ==
    LET total_words == Len(words)
        m1 == [NewTextMetrics EXCEPT
                 !.total_words = total_words,
                 !.total_sentences = Len(sentence_analyses),
                 !.simple_sentences = TypeCount(sentence_analyses, "Simple"),
                 !.compound_sentences = TypeCount(sentence_analyses, "Compound"),
                 !.complex_sentences = TypeCount(sentence_analyses, "Complex"),
                 !.run_on_sentences = TypeCount(sentence_analyses, "RunOn"),
                 !.lexical_diversity_index =
                     percentage(Cardinality(UniqueWords(words)), total_words)]
    IN  [metrics |-> counters_to_metrics(counters, total_words, m1),
         sentences |-> sentence_analyses, tagged |-> words,
         counters |-> counters, sentence_analysis |-> TRUE,
         short_circuit |-> FALSE]

\* analyze once the words are extracted: the early return, or the rest
AnalyzeWords(t, words) ==
    IF Len(words) = 0
    THEN [metrics |-> [NewTextMetrics EXCEPT !.total_words = 0],
          sentences |-> <<>>, tagged |-> <<>>,
          counters |-> <<>>, sentence_analysis |-> FALSE,
          short_circuit |-> TRUE]
    ELSE AnalyzeFull(words, analyze_text(t), CountWords(words, NewWordCounters))

analyze(t) == AnalyzeWords(t, extract_words(t))

\* what a call of analyze leaves in trace
TraceOf(r) ==
    [tagged |-> r.tagged, sentence_analysis |-> r.sentence_analysis,
     short_circuit |-> r.short_circuit,
     counters |-> IF r.short_circuit THEN trace.counters ELSE r.counters]

\* before any call
NoTrace ==
    [tagged |-> <<>>, sentence_analysis |-> FALSE, short_circuit |-> FALSE,
     counters |-> [f \in CounterFields |-> 0]]

NoResult ==
    [primary_diagnosis |-> "None", confidence |-> 0,
     group_scores |-> [healthy |-> 0, schizophrenia |-> 0,
                       personality_disorder |-> 0, bipolar_disorder |-> 0]]

\* the sequences over S of length at most n
SeqsUpTo(S, n) == UNION {[1..k -> S] : k \in 0..n}

(***************************************************************************)
(* The dictionaries the external analyzer may hold.                        *)
(***************************************************************************)
w_idem == <<"i", "d", "e", "m">>

Dictionaries ==
    {{},
     {<<w_idu, [normal_form |-> w_idti, grammemes |-> {"VERB", "pres", "1per", "sing"}]>>,
      <<w_idem, [normal_form |-> w_idti, grammemes |-> {"VERB", "pres", "1per", "plur"}]>>,
      <<w_dom, [normal_form |-> w_dom, grammemes |-> {"NOUN", "sing"}]>>,
      <<w_i, [normal_form |-> w_i, grammemes |-> {"CONJ"}]>>},
     {<<w_idu, [normal_form |-> w_idu, grammemes |-> {"PRTF", "past", "sing"}]>>,
      <<w_dom, [normal_form |-> w_dumat, grammemes |-> {"GRND", "pres"}]>>,
      <<w_ya, [normal_form |-> w_ya, grammemes |-> {"NPRO", "1per", "sing"}]>>},
     {<<w_dom, [normal_form |-> w_dumat, grammemes |-> {"VERB", "futr", "1per", "plur"}]>>,
      <<w_idu, [normal_form |-> w_dom, grammemes |-> {"NOUN", "VERB"}]>>,
      <<w_i, [normal_form |-> w_idti, grammemes |-> {"INFN"}]>>}}

(***************************************************************************)
(* analyze_and_classify on one text: lib.rs                                *)
(***************************************************************************)
MaxAtoms == 3

TextAtoms ==
    {w_ya, <<"YA">>, w_my, w_idu, w_i, w_dom, <<"3">>, <<" ">>, <<".">>, <<",">>}

Texts == {Concat(q) : q \in SeqsUpTo(TextAtoms, MaxAtoms)}

Init ==
    /\ dict \in Dictionaries
    /\ text \in Texts
    /\ pc = "start"
    /\ split = <<>>
    /\ sentences = <<>>
    /\ metrics = [f \in PercentFields \cup CountFields |-> 0]
    /\ result = NoResult
    /\ trace = NoTrace
    /\ memo = <<>>
    /\ tags = <<>>

\* the caller receives the TextMetrics r.metrics
Returned(r) ==
    /\ metrics' = r.metrics
    /\ sentences' = r.sentences
    /\ trace' = TraceOf(r)

\* let metrics = analyzer.analyze(text)
Analyze ==
    /\ pc = "start"
    /\ Returned(analyze(text))
    /\ pc' = "analyzed"
    /\ UNCHANGED <<dict, text, split, result, memo, tags>>

\* let result = classifier.classify(&metrics)
Classify ==
    /\ pc = "analyzed"
    /\ result' = classify(metrics)
    /\ pc' = "classified"
    /\ UNCHANGED <<dict, text, split, sentences, metrics, trace, memo, tags>>

Next == Analyze \/ Classify

Spec == Init /\ [][Next]_vars


\* C2: after analyze, every percentage field of the returned TextMetrics is
\* between 0 and 100 percent, and every word counter is at most total_words
PercentagesInRange ==
    pc # "start" =>
        /\ \A f \in PercentFields : metrics[f] \in 0..Hundred
        /\ ~trace.short_circuit =>
               \A f \in CounterFields : trace.counters[f] \in 0..metrics.total_words

\* a text of several words where one category holds every word and another
\* holds some but not all
PercentagesInRangeWitness ==
    /\ pc # "start"
    /\ metrics.total_words >= 2
    /\ \E f \in PercentFields \ {"lexical_diversity_index"} : metrics[f] = Hundred
    /\ \E f \in PercentFields : metrics[f] > 0 /\ metrics[f] < Hundred

\* C3: a text with no alphabetic character gives total_words = 0 and every
\* other field zero, with no word tagged and no sentence analysed; analyze
\* returns early for such a text and for no other
ZeroWordsShortCircuit ==
    pc # "start" =>
        LET no_alphabetic == \A i \in 1..Len(text) : ~IsAlphabetic(text[i])
        IN  /\ no_alphabetic =>
                   /\ metrics = [f \in PercentFields \cup CountFields |-> 0]
                   /\ trace.tagged = <<>>
                   /\ ~trace.sentence_analysis
                   /\ sentences = <<>>
            /\ trace.short_circuit <=> no_alphabetic
            /\ ~no_alphabetic =>
                   /\ metrics.total_words > 0
                   /\ trace.sentence_analysis
                   /\ Len(trace.tagged) = metrics.total_words

\* a text of a digit and a full stop has been analysed
ZeroWordsShortCircuitWitness ==
    /\ pc = "analyzed"
    /\ \E i \in 1..Len(text) : text[i] \in Digits
    /\ \E i \in 1..Len(text) : text[i] \in Terminal
    /\ \A i \in 1..Len(text) : ~IsAlphabetic(text[i])
    /\ trace.short_circuit
    /\ metrics.total_words = 0


(***************************************************************************)
(* The calls on a SentenceAnalyzer: sentence.rs                            *)
(***************************************************************************)
MaxSentAtoms == 4

SentAtoms == {w_ya, w_i, w_chto, w_idu, <<",">>, <<" ">>, <<".">>}

\* "A. B! C?"
ExampleABC == <<"latA", ".", " ", "latB", "!", " ", "latC", "?">>

\* "YA znayu, chto on pridyot"
ExampleComplex ==
    <<"YA", " ", "z", "n", "a", "yu", ",", " ", "ch", "t", "o", " ", "o", "n",
      " ", "p", "r", "i", "d", "yo", "t">>

SentTexts ==
    {Concat(q) : q \in SeqsUpTo(SentAtoms, MaxSentAtoms)}
        \cup {ExampleABC, ExampleComplex}

InitSentence ==
    /\ dict = {}
    /\ text \in SentTexts
    /\ pc = "start"
    /\ split = <<>>
    /\ sentences = <<>>
    /\ metrics = [f \in PercentFields \cup CountFields |-> 0]
    /\ result = NoResult
    /\ trace = NoTrace
    /\ memo = <<>>
    /\ tags = <<>>

\* analyzer.split_into_sentences(text)
SplitIntoSentences ==
    /\ pc = "start"
    /\ split' = split_into_sentences(text)
    /\ pc' = "split"
    /\ UNCHANGED <<dict, text, sentences, metrics, result, trace, memo, tags>>

\* analyzer.analyze_sentence(text)
AnalyzeSentence ==
    /\ pc = "start"
    /\ sentences' = <<analyze_sentence(text)>>
    /\ pc' = "sentence"
    /\ UNCHANGED <<dict, text, split, metrics, result, trace, memo, tags>>

\* analyzer.analyze_text(text)
AnalyzeText ==
    /\ pc = "start"
    /\ split' = split_into_sentences(text)
    /\ sentences' = analyze_text(text)
    /\ pc' = "text"
    /\ UNCHANGED <<dict, text, metrics, result, trace, memo, tags>>

NextSentence == SplitIntoSentences \/ AnalyzeSentence \/ AnalyzeText

SpecSentence == InitSentence /\ [][NextSentence]_vars

\* C6: the type of every analysed sentence is Simple when clause_count <= 1,
\* else Complex when a subordinating conjunction is present (a coordinating
\* one or not), else Compound when a coordinating one is, else RunOn
SentenceTypeOrder ==
    pc \in {"sentence", "text"} =>
        \A i \in 1..Len(sentences) :
            LET a == sentences[i]
            IN  a.sentence_type =
                    IF a.clause_count <= 1 THEN "Simple"
                    ELSE IF a.has_subordinating_conjunction THEN "Complex"
                    ELSE IF a.has_coordinating_conjunction THEN "Compound"
                    ELSE "RunOn"

\* a sentence with both kinds of conjunction has been typed Complex
SentenceTypeOrderWitness ==
    /\ pc = "sentence"
    /\ sentences[1].has_subordinating_conjunction
    /\ sentences[1].has_coordinating_conjunction
    /\ sentences[1].clause_count > 1
    /\ sentences[1].sentence_type = "Complex"

\* C7: clause_count of an analysed sentence is conj_count + 1 when there is a
\* conjunction token and base = 1, else base, where base is
\* max(1, min(verb_count, punct_estimate)), verb_count is max(1, verb tokens)
\* and punct_estimate is boundaries + 1 when there is a boundary mark, else 1
ClauseCountFormula ==
    pc = "sentence" =>
        LET ws == sentence_extract_words(text)
            verbs == Cardinality({i \in 1..Len(ws) : MorphAnalyze(ws[i]).pos = "Verb"})
            verb_count == IF verbs > 1 THEN verbs ELSE 1
            boundaries == Cardinality({i \in 1..Len(text) : text[i] \in ClauseMarks})
            punct_estimate == IF boundaries > 0 THEN boundaries + 1 ELSE 1
            smaller == IF verb_count < punct_estimate THEN verb_count ELSE punct_estimate
            base == IF smaller > 1 THEN smaller ELSE 1
            conj_count ==
                Cardinality({i \in 1..Len(ws) :
                                ws[i] \in COORDINATING_CONJUNCTIONS
                                          \cup SUBORDINATING_CONJUNCTIONS})
        IN  sentences[1].clause_count =
                IF conj_count > 0 /\ base = 1 THEN conj_count + 1 ELSE base

\* a sentence of no verb, no boundary mark and two conjunctions has three
\* clauses
ClauseCountFormulaWitness ==
    /\ pc = "sentence"
    /\ LET ws == sentence_extract_words(text)
       IN  /\ Cardinality({i \in 1..Len(ws) : ws[i] \in ALL_CONJUNCTIONS}) = 2
           /\ \A i \in 1..Len(ws) : MorphAnalyze(ws[i]).pos # "Verb"
    /\ \A i \in 1..Len(text) : text[i] \notin ClauseMarks
    /\ sentences[1].clause_count = 3

\* C8: the sentences returned are the maximal runs of text between terminal
\* marks, trimmed, in text order, without the empty ones: each is non-empty,
\* trimmed and free of terminal marks, and "A. B! C?" gives A, B, C
SplitIntoSentencesCorrect ==
    pc = "split" =>
        LET n == Len(text)
            \* the maximal runs <<from, to>> of characters other than terminal marks
            runs == {r \in (1..n) \X (1..n) :
                        /\ r[1] <= r[2]
                        /\ \A k \in r[1]..r[2] : text[k] \notin Terminal
                        /\ r[1] = 1 \/ text[r[1] - 1] \in Terminal
                        /\ r[2] = n \/ text[r[2] + 1] \in Terminal}
            \* those with a character that is not whitespace
            kept == {r \in runs : \E k \in r[1]..r[2] : text[k] \notin Whitespace}
            first(r) == CHOOSE k \in r[1]..r[2] :
                            /\ text[k] \notin Whitespace
                            /\ \A j \in r[1]..(k - 1) : text[j] \in Whitespace
            last(r) == CHOOSE k \in r[1]..r[2] :
                           /\ text[k] \notin Whitespace
                           /\ \A j \in (k + 1)..r[2] : text[j] \in Whitespace
        IN  /\ Len(split) = Cardinality(kept)
            /\ \A r \in kept :
                   split[Cardinality({q \in kept : q[1] <= r[1]})]
                       = SubSeq(text, first(r), last(r))
            /\ \A i \in 1..Len(split) :
                   /\ split[i] # <<>>
                   /\ split[i][1] \notin Whitespace
                   /\ split[i][Len(split[i])] \notin Whitespace
                   /\ \A k \in 1..Len(split[i]) : split[i][k] \notin Terminal
            /\ text = ExampleABC => split = << <<"latA">>, <<"latB">>, <<"latC">> >>

\* "A. B! C?" has been split
SplitIntoSentencesWitness ==
    /\ pc = "split"
    /\ text = ExampleABC
    /\ Len(split) = 3

\* C10: a sentence with a coordinating or subordinating conjunction token has
\* clause_count >= 2 and is not Simple: it is Complex, with
\* has_subordinating_conjunction set, when a subordinating conjunction is
\* among the tokens, and else Compound, with has_coordinating_conjunction set
ConjunctionGivesClauses ==
    pc = "sentence" =>
        LET ws == sentence_extract_words(text)
            sub == \E i \in 1..Len(ws) : ws[i] \in SUBORDINATING_CONJUNCTIONS
            coord == \E i \in 1..Len(ws) : ws[i] \in COORDINATING_CONJUNCTIONS
            a == sentences[1]
        IN  sub \/ coord =>
                /\ a.clause_count >= 2
                /\ a.sentence_type # "Simple"
                /\ sub => a.sentence_type = "Complex" /\ a.has_subordinating_conjunction
                /\ ~sub => a.sentence_type = "Compound" /\ a.has_coordinating_conjunction

\* "YA znayu, chto on pridyot" has been analysed and is Complex
ConjunctionGivesClausesWitness ==
    /\ pc = "sentence"
    /\ text = ExampleComplex
    /\ sentences[1].has_subordinating_conjunction
    /\ sentences[1].sentence_type = "Complex"


(***************************************************************************)
(* classify on a TextMetrics value built by the caller: classifier.rs      *)
(***************************************************************************)
MaxClsWords == 1

\* 0, 5 and 100 percent
PctGrid == {0, 500, Hundred}

\* the fields of TextMetrics that from_metrics reads as percentages
FeatureFields ==
    {"non_finite_verb_forms", "first_person_singular_pronouns", "past_tense_verbs",
     "present_tense_verbs", "external_predicates", "internal_predicates",
     "emotion_words", "social_interaction_words", "lexical_diversity_index"}

ClsMetrics ==
    {[f \in PercentFields \cup CountFields |->
         IF f = "total_words" THEN n
         ELSE IF f \in FeatureFields THEN v[f] ELSE 0] :
     n \in 0..MaxClsWords, v \in [FeatureFields -> PctGrid]}

InitClassify ==
    /\ dict = {}
    /\ text = <<>>
    /\ pc = "analyzed"
    /\ split = <<>>
    /\ sentences = <<>>
    /\ metrics \in ClsMetrics \cup {ReferenceValues(Groups[i]) : i \in 1..4}
    /\ result = NoResult
    /\ trace = NoTrace
    /\ memo = <<>>
    /\ tags = <<>>

NextClassify == Classify

SpecClassify == InitClassify /\ [][NextClassify]_vars

\* C1: the four group scores of every classification lie between 0 and 1 and
\* sum to 1 within the rounding of the four divisions; none is the NaN of a
\* zero denominator: the exponentials of the raw scores less their maximum
\* sum to 1 at least
GroupScoresAreDistribution ==
    pc = "classified" =>
        LET g == result.group_scores
            raw == raw_lda_scores(metrics)
        IN  /\ \A f \in DOMAIN g : g[f] # NaN /\ g[f] \in 0..ProbScale
            /\ g.healthy + g.schizophrenia + g.personality_disorder
                   + g.bipolar_disorder \in (ProbScale - 2)..(ProbScale + 2)
            /\ \E f \in DOMAIN raw :
                   /\ \A h \in DOMAIN raw : raw[h] <= raw[f]
                   /\ Exp(raw.healthy - raw[f]) + Exp(raw.schizophrenia - raw[f])
                          + Exp(raw.personality_disorder - raw[f])
                          + Exp(raw.bipolar_disorder - raw[f]) >= ProbScale

\* a classification in which every group has a positive probability
GroupScoresAreDistributionWitness ==
    /\ pc = "classified"
    /\ \A f \in DOMAIN result.group_scores :
           result.group_scores[f] > 0 /\ result.group_scores[f] < ProbScale

\* C5: the primary diagnosis is a group of maximal probability, the confidence
\* is that probability, and of several groups of maximal probability the
\* first in the order Healthy, Schizophrenia, PersonalityDisorder,
\* BipolarDisorder is the primary diagnosis
PrimaryIsFirstMaximal ==
    pc = "classified" =>
        LET g == result.group_scores
            p == <<g.healthy, g.schizophrenia, g.personality_disorder,
                   g.bipolar_disorder>>
            maximal == {i \in 1..4 : \A j \in 1..4 : p[j] <= p[i]}
            first == CHOOSE i \in maximal : \A j \in maximal : i <= j
        IN  /\ result.primary_diagnosis = Groups[first]
            /\ result.confidence = p[first]

\* two groups share the maximal probability
PrimaryIsFirstMaximalWitness ==
    /\ pc = "classified"
    /\ result.group_scores.schizophrenia = result.group_scores.personality_disorder
    /\ result.group_scores.healthy < result.group_scores.schizophrenia
    /\ result.group_scores.bipolar_disorder < result.group_scores.schizophrenia
    /\ result.primary_diagnosis = "Schizophrenia"


(***************************************************************************)
(* The two taggers on one word: morphology.rs, rsmorph.rs                  *)
(***************************************************************************)
\* one word for each suffix rule of the rule-based tagger: katat', shedshij,
\* delaya, upal, tam, veselo, novyj, o; and kit, a present-tense ending on a
\* stem of one letter
RuleWords ==
    {<<"k", "a", "t", "a", "t", "soft">>, <<"sh", "e", "d", "sh", "i", "j">>,
     <<"d", "e", "l", "a", "ya">>, <<"u", "p", "a", "l">>, <<"t", "a", "m">>,
     <<"v", "e", "s", "e", "l", "o">>, <<"n", "o", "v", "y", "j">>, <<"o">>,
     <<"k", "i", "t">>}

TagWords ==
    FIRST_PERSON_SINGULAR \cup FIRST_PERSON_PLURAL \cup SECOND_PERSON_SINGULAR
        \cup SECOND_PERSON_PLURAL \cup THIRD_PERSON_SINGULAR
        \cup THIRD_PERSON_PLURAL \cup POSSESSIVE_FIRST_PERSON \cup ReflexiveForms
        \cup PREPOSITIONS \cup ALL_CONJUNCTIONS
        \cup {w_idu, w_idem, w_dom, w_dumayu, w_moyus, w_mama, <<"YA">>, <<"M", "y">>}
        \cup RuleWords \cup INTERNAL_PREDICATES \cup EXTERNAL_PREDICATES

\* the grammemes of the first parse the dictionary may hold for a word
TagGrammemes ==
    {{"NOUN", "sing"}, {"VERB", "pres", "1per", "plur"}, {"VERB", "past", "sing"},
     {"INFN"}, {"PRTF", "past"}, {"GRND", "pres"}, {"ADJF"}, {"ADVB"},
     {"NPRO", "3per", "plur"}, {"PREP"}, {"CONJ"}, {"PRCL"}}

TagLemmas(w) == {w, w_dumat, w_idti}

InitTag ==
    /\ text \in TagWords
    /\ dict \in {{}} \cup
                {{<<ToLowercase(text), [normal_form |-> nf, grammemes |-> g]>>} :
                     nf \in TagLemmas(ToLowercase(text)), g \in TagGrammemes}
    /\ pc = "start"
    /\ split = <<>>
    /\ sentences = <<>>
    /\ metrics = [f \in PercentFields \cup CountFields |-> 0]
    /\ result = NoResult
    /\ trace = NoTrace
    /\ memo = <<>>
    /\ tags = <<>>

\* MorphAnalyzer::analyze(text)
TagMorph ==
    /\ pc = "start"
    /\ tags' = [tagger |-> "morph", analysis |-> MorphAnalyze(text)]
    /\ pc' = "tagged"
    /\ UNCHANGED <<dict, text, split, sentences, metrics, result, trace, memo>>

\* RsMorphAnalyzer::analyze(text)
TagRsMorph ==
    /\ pc = "start"
    /\ tags' = [tagger |-> "rsmorph", analysis |-> RsAnalyze(text)]
    /\ pc' = "tagged"
    /\ UNCHANGED <<dict, text, split, sentences, metrics, result, trace, memo>>

NextTag == TagMorph \/ TagRsMorph

SpecTag == InitTag /\ [][NextTag]_vars

\* C9: a first-person-singular pronoun is tagged Pronoun, First, Singular and
\* egocentric; a first-person-plural pronoun outside the singular list is
\* tagged Pronoun, First, Plural and social; and a word of several pronoun
\* lists takes the person and number of the first list it is in, in the order
\* 1sg, 1pl, 2sg, 2pl, 3sg, 3pl, possessive/reflexive.  For the rule-based
\* tagger the word is not a preposition or conjunction.
PronounTagging ==
    pc = "tagged" =>
        LET w == ToLowercase(text)
            a == tags.analysis
            lists == <<FIRST_PERSON_SINGULAR, FIRST_PERSON_PLURAL,
                       SECOND_PERSON_SINGULAR, SECOND_PERSON_PLURAL,
                       THIRD_PERSON_SINGULAR, THIRD_PERSON_PLURAL,
                       POSSESSIVE_FIRST_PERSON>>
            person == <<"First", "First", "Second", "Second", "Third", "Third",
                        IF w \in ReflexiveForms THEN "Reflexive" ELSE "First">>
            number == <<"Singular", "Plural", "Singular", "Plural", "Singular",
                        "Plural", "Unknown">>
            inlists == {i \in 1..7 : w \in lists[i]}
            applies == tags.tagger = "rsmorph"
                           \/ (w \notin PREPOSITIONS /\ w \notin ALL_CONJUNCTIONS)
        IN  applies =>
                /\ w \in FIRST_PERSON_SINGULAR =>
                       /\ a.pos = "Pronoun"
                       /\ a.pronoun_person = "First"
                       /\ a.pronoun_number = "Singular"
                       /\ a.is_egocentrism_marker
                /\ w \in FIRST_PERSON_PLURAL \ FIRST_PERSON_SINGULAR =>
                       /\ a.pos = "Pronoun"
                       /\ a.pronoun_person = "First"
                       /\ a.pronoun_number = "Plural"
                       /\ a.is_social_interaction
                /\ \A i \in inlists :
                       (\A j \in inlists : i <= j) =>
                           /\ a.pos = "Pronoun"
                           /\ a.pronoun_person = person[i]
                           /\ a.pronoun_number = number[i]

\* "im", of the 3sg and the 3pl list, has been tagged by the rule-based tagger
PronounTaggingWitness ==
    /\ pc = "tagged"
    /\ tags.tagger = "morph"
    /\ text = w_im
    /\ text \in THIRD_PERSON_SINGULAR \cap THIRD_PERSON_PLURAL
    /\ tags.analysis.pronoun_person = "Third"
    /\ tags.analysis.pronoun_number = "Singular"


(***************************************************************************)
(* A run of calls on one TextAnalyzer and one Classifier.                  *)
(***************************************************************************)
MaxDetAtoms == 1

DetAtoms == {w_ya, w_idu, <<" ">>, <<"3">>}

DetTexts == {Concat(q) : q \in SeqsUpTo(DetAtoms, MaxDetAtoms)}

InitDet ==
    /\ dict \in Dictionaries
    /\ text = <<>>
    /\ pc = "start"
    /\ split = <<>>
    /\ sentences = <<>>
    /\ metrics = [f \in PercentFields \cup CountFields |-> 0]
    /\ result = NoResult
    /\ trace = NoTrace
    /\ memo = <<>>
    /\ tags = <<>>

\* analyzer.analyze(t); memo notes whether a call on another text has come
\* after the remembered one
CallAnalyze(t) ==
    /\ text' = t
    /\ Returned(analyze(t))
    /\ memo' = IF memo # <<>> /\ t # memo[1] THEN [memo EXCEPT ![3] = TRUE] ELSE memo
    /\ pc' = "analyzed"
    /\ UNCHANGED <<dict, split, result, tags>>

\* analyzer.analyze(t), the first call to be remembered
CallAnalyzeRemember(t) ==
    /\ memo = <<>>
    /\ text' = t
    /\ Returned(analyze(t))
    /\ memo' = <<t, metrics', FALSE>>
    /\ pc' = "analyzed"
    /\ UNCHANGED <<dict, split, result, tags>>

\* classifier.classify(&metrics)
CallClassify ==
    /\ pc = "analyzed"
    /\ result' = classify(metrics)
    /\ pc' = "classified"
    /\ UNCHANGED <<dict, text, split, sentences, metrics, trace, memo, tags>>

NextDet ==
    \/ \E t \in DetTexts : CallAnalyze(t)
    \/ \E t \in DetTexts : CallAnalyzeRemember(t)
    \/ CallClassify

SpecDet == InitDet /\ [][NextDet]_vars

w_kak == <<"k", "a", "k">>
w_katalsya == <<"k", "a", "t", "a", "l", "s", "ya">>
w_na == <<"n", "a">>
w_kolyosnom == <<"k", "o", "l", "yo", "s", "n", "o", "m">>
w_velosipede == <<"v", "e", "l", "o", "s", "i", "p", "e", "d", "e">>
w_upal == <<"u", "p", "a", "l">>
w_goda == <<"g", "o", "d", "a">>

\* "Kak ya katalsya na 3-kolyosnom velosipede i upal. 3(en dash)4 goda"
ExampleSchizophrenia ==
    <<"K", "a", "k", " ">> \o w_ya \o <<" ">> \o w_katalsya \o <<" ">> \o w_na
        \o <<" ", "3", "-">> \o w_kolyosnom \o <<" ">> \o w_velosipede
        \o <<" ">> \o w_i \o <<" ">> \o w_upal
        \o <<".", " ", "3", "endash", "4", " ">> \o w_goda

\* "abc"
ExampleLatin == <<"lata", "latb", "latc">>

ExampleTexts == {ExampleSchizophrenia, ExampleLatin}

\* the entries of the dictionary for one word: none when it has no parse
Entry(w, g) ==
    IF g = {} THEN {} ELSE {<<w, [normal_form |-> w, grammemes |-> g]>>}

\* the dictionaries of the reference text: its two verbs are past-tense
\* verbs or unknown to the dictionary, its other words take the parses
\* OpenCorpora lists for them, or none
ExampleDictionaries ==
    {Entry(w_kak, kak) \cup Entry(w_katalsya, katalsya) \cup Entry(w_upal, upal)
         \cup Entry(w_na, na) \cup Entry(w_kolyosnom, kolyosnom)
         \cup Entry(w_velosipede, noun) \cup Entry(w_goda, noun)
         \cup Entry(w_i, conj) :
     kak \in {{}, {"CONJ"}, {"ADVB"}, {"PRCL"}},
     katalsya \in {{}, {"VERB", "past", "sing", "masc"}},
     upal \in {{}, {"VERB", "past", "sing", "masc"}},
     na \in {{}, {"PREP"}},
     kolyosnom \in {{}, {"ADJF", "sing"}},
     noun \in {{}, {"NOUN", "sing"}},
     conj \in {{}, {"CONJ"}}}

InitExample ==
    /\ dict \in ExampleDictionaries
    /\ text \in ExampleTexts
    /\ pc = "start"
    /\ split = <<>>
    /\ sentences = <<>>
    /\ metrics = [f \in PercentFields \cup CountFields |-> 0]
    /\ result = NoResult
    /\ trace = NoTrace
    /\ memo = <<>>
    /\ tags = <<>>

NextExample == Analyze \/ Classify

SpecExample == InitExample /\ [][NextExample]_vars

\* C11: for the Schizophrenia reference text the raw discriminant score of
\* Schizophrenia, computed from the metrics of the text, is strictly greater
\* than the raw score of Healthy
ReferenceScoresSchizophrenia ==
    pc \in {"analyzed", "classified"} /\ text = ExampleSchizophrenia =>
        raw_lda_scores(metrics).schizophrenia > raw_lda_scores(metrics).healthy

\* the reference text is analysed with both verbs in the past tense: nine
\* words, one of them the pronoun, no emotion word
ReferenceScoresSchizophreniaWitness ==
    /\ pc = "analyzed"
    /\ text = ExampleSchizophrenia
    /\ metrics.total_words = 9
    /\ metrics.past_tense_verbs = (2 * Hundred) \div 9
    /\ metrics.first_person_singular_pronouns = Hundred \div 9
    /\ metrics.emotion_words = 0


\* C12: every text is analysed and classified, and a text whose words show
\* no feature (every feature percentage 0 apart from lexical diversity) is
\* classified with a confidence below 0.5
FeaturelessLowConfidence ==
    pc = "classified" =>
        /\ result.primary_diagnosis \in {Groups[i] : i \in 1..4}
        /\ (/\ metrics.total_words > 0
            /\ \A f \in FeatureFields \ {"lexical_diversity_index"} : metrics[f] = 0)
               => 2 * result.confidence < ProbScale


\* C13: when the dictionary has no parse to give, the tagger of TextAnalyzer
\* tags a word as the rule-based tagger does (lexicon checks, then the suffix
\* cascade)
NoDictionaryFallsBackToHeuristic ==
    pc = "tagged" /\ tags.tagger = "rsmorph" /\ dict = {} =>
        LET a == tags.analysis
            h == MorphAnalyze(text)
        IN  /\ a.pos = h.pos
            /\ a.verb_tense = h.verb_tense
            /\ a.verb_form = h.verb_form
            /\ a.pronoun_person = h.pronoun_person
            /\ a.pronoun_number = h.pronoun_number

\* C14: every sentence analysis produced has clause_count >= 1, whatever the
\* sentence: one without words, verbs or punctuation included
ClauseCountAtLeastOne ==
    pc \in {"sentence", "text"} =>
        \A i \in 1..Len(sentences) : sentences[i].clause_count >= 1

\* a sentence without word, verb or boundary mark has been analysed and has
\* one clause
ClauseCountAtLeastOneWitness ==
    /\ pc = "sentence"
    /\ sentences[1].word_count = 0
    /\ \A i \in 1..Len(text) : text[i] \notin ClauseMarks
    /\ sentences[1].clause_count = 1

\* C15: the rule-based tagger takes the part of speech of the first rule that
\* matches, in the order preposition lexicon, conjunction lexicon, pronoun
\* lexicon, predicate lexicon, infinitive ending, participle ending, gerund
\* pattern, past-tense ending, present-tense ending, adverb, adjective, noun,
\* else Unknown; the pronoun and verb fields are those of that rule alone, so
\* a preposition that is also in a pronoun list has no person or number
StrictRuleOrder ==
    pc = "tagged" /\ tags.tagger = "morph" =>
        LET w == ToLowercase(text)
            a == tags.analysis
            rule == <<w \in PREPOSITIONS,
                      w \in ALL_CONJUNCTIONS,
                      w \in FIRST_PERSON_SINGULAR \cup FIRST_PERSON_PLURAL
                          \cup SECOND_PERSON_SINGULAR \cup SECOND_PERSON_PLURAL
                          \cup THIRD_PERSON_SINGULAR \cup THIRD_PERSON_PLURAL
                          \cup POSSESSIVE_FIRST_PERSON,
                      w \in INTERNAL_PREDICATES \cup EXTERNAL_PREDICATES,
                      ends_with_any(w, INFINITIVE_ENDINGS),
                      ends_with_any(w, PARTICIPLE_ENDINGS),
                      is_gerund(w),
                      ends_with_any(w, PAST_TENSE_ENDINGS) /\ StrLen(w) > 3,
                      looks_like_present_tense(w),
                      is_adverb(w),
                      is_adjective(w),
                      is_noun(w),
                      TRUE>>
            pos == <<"Preposition", "Conjunction", "Pronoun", "Verb", "Verb",
                     "Verb", "Verb", "Verb", "Verb", "Adverb", "Adjective",
                     "Noun", "Unknown">>
            first == CHOOSE k \in 1..13 : rule[k] /\ \A j \in 1..(k - 1) : ~rule[j]
        IN  /\ a.pos = pos[first]
            /\ (first # 3) =>
                   (a.pronoun_person = "None" /\ a.pronoun_number = "None")
            /\ (first \notin 4..9) =>
                   (a.verb_tense = "None" /\ a.verb_form = "None"
                        /\ a.predicate_type = "None")
            /\ (first \in 5..9) =>
                   (/\ a.predicate_type = "Neither"
                    /\ <<a.verb_tense, a.verb_form>> =
                           <<<<"Infinitive", "Infinitive">>, <<"Unknown", "Participle">>,
                             <<"Unknown", "Gerund">>, <<"Past", "Finite">>,
                             <<"Present", "Finite">>>>[first - 4])

\* a conjunction that also carries a past-tense ending of sufficient length
\* has been tagged Conjunction, without tense
StrictRuleOrderWitness ==
    /\ pc = "tagged"
    /\ tags.tagger = "morph"
    /\ ToLowercase(text) \in ALL_CONJUNCTIONS
    /\ ends_with_any(ToLowercase(text), PAST_TENSE_ENDINGS)
    /\ StrLen(ToLowercase(text)) > 3
    /\ tags.analysis.pos = "Conjunction"
    /\ tags.analysis.verb_tense = "None"

\* C16: a word of the internal or external predicate list that the suffix
\* cascade (infinitive, participle, gerund, past tense with its length guard,
\* present-tense endings) can classify is tagged by the rule-based tagger
\* with the tense and form the cascade gives it; and on any word the cascade
\* classifies, determine_verb_tense_form returns the cascade's tense and form
PredicateBranchAgreesWithCascade ==
    pc = "tagged" /\ tags.tagger = "morph" =>
        LET w == ToLowercase(text)
            a == tags.analysis
            cascade ==
                IF ends_with_any(w, INFINITIVE_ENDINGS)
                THEN <<"Infinitive", "Infinitive">>
                ELSE IF ends_with_any(w, PARTICIPLE_ENDINGS)
                THEN <<"Unknown", "Participle">>
                ELSE IF is_gerund(w) THEN <<"Unknown", "Gerund">>
                ELSE IF ends_with_any(w, PAST_TENSE_ENDINGS) /\ StrLen(w) > 3
                THEN <<"Past", "Finite">>
                ELSE IF looks_like_present_tense(w) THEN <<"Present", "Finite">>
                ELSE <<>>
        IN  (cascade # <<>>) =>
                /\ determine_verb_tense_form(w) = cascade
                /\ (a.pos = "Verb"
                        /\ w \in INTERNAL_PREDICATES \cup EXTERNAL_PREDICATES) =>
                       (<<a.verb_tense, a.verb_form>> = cascade)

\* a word of the external predicate list with a past-tense ending has been
\* tagged a finite verb in the past tense by the predicate branch
PredicateBranchAgreesWithCascadeWitness ==
    /\ pc = "tagged"
    /\ tags.tagger = "morph"
    /\ ToLowercase(text) \in EXTERNAL_PREDICATES
    /\ ends_with_any(ToLowercase(text), PAST_TENSE_ENDINGS)
    /\ tags.analysis.pos = "Verb"
    /\ tags.analysis.predicate_type = "External"
    /\ tags.analysis.verb_tense = "Past"
    /\ tags.analysis.verb_form = "Finite"

MaxCountAtoms == 3

\* ya, moj, sebya, my, moyus', MOYUS', idu
CountAtoms ==
    {w_ya, w_moj, w_sebya, w_my, w_moyus, <<"M", "O", "YU", "S", "SOFT">>,
     w_idu, <<" ">>}

CountTexts == {Concat(q) : q \in SeqsUpTo(CountAtoms, MaxCountAtoms)}

InitCount ==
    /\ dict \in Dictionaries
    /\ text \in CountTexts
    /\ pc = "start"
    /\ split = <<>>
    /\ sentences = <<>>
    /\ metrics = [f \in PercentFields \cup CountFields |-> 0]
    /\ result = NoResult
    /\ trace = NoTrace
    /\ memo = <<>>
    /\ tags = <<>>

NextCount == Analyze \/ Classify

SpecCount == InitCount /\ [][NextCount]_vars

\* C19: first_person_singular_pronouns is the percentage of the tokens tagged
\* Pronoun with person First and number Singular, and of no others: a pronoun
\* of number Unknown or of person Reflexive is not counted in it
FirstPersonSingularCountsOnlyItsClass ==
    pc \in {"analyzed", "classified"} /\ ~trace.short_circuit =>
        LET ws == trace.tagged
            fps == {i \in 1..Len(ws) :
                       LET a == RsAnalyze(ws[i])
                       IN  /\ a.pos = "Pronoun"
                           /\ a.pronoun_person = "First"
                           /\ a.pronoun_number = "Singular"}
        IN  metrics.first_person_singular_pronouns
                = percentage(Cardinality(fps), Len(ws))

\* C20: active_voice_verbs is the percentage of the tokens tagged Verb whose
\* lower-case form ends neither in -sya nor in -s', however the token is
\* capitalised in the text
ActiveVoiceIgnoresCase ==
    pc \in {"analyzed", "classified"} /\ ~trace.short_circuit =>
        LET ws == trace.tagged
            active == {i \in 1..Len(ws) :
                          /\ RsAnalyze(ws[i]).pos = "Verb"
                          /\ ~EndsWith(ToLowercase(ws[i]), <<"s", "ya">>)
                          /\ ~EndsWith(ToLowercase(ws[i]), <<"s", "soft">>)}
        IN  metrics.active_voice_verbs = percentage(Cardinality(active), Len(ws))

\* C21: a word that no earlier rule of the rule-based tagger matches
\* (preposition, conjunction, pronoun and predicate lists; infinitive,
\* participle, gerund and past-tense rules) and that ends in a present-tense
\* ending with a non-empty stem before it, one character being enough, is
\* tagged a finite verb in the present tense
PresentTenseNeedsNonEmptyStem ==
    pc = "tagged" /\ tags.tagger = "morph" =>
        LET w == ToLowercase(text)
            a == tags.analysis
            earlier ==
                \/ w \in PREPOSITIONS \cup ALL_CONJUNCTIONS
                \/ get_pronoun_info(w) # <<>>
                \/ w \in INTERNAL_PREDICATES \cup EXTERNAL_PREDICATES
                \/ ends_with_any(w, INFINITIVE_ENDINGS)
                \/ ends_with_any(w, PARTICIPLE_ENDINGS)
                \/ is_gerund(w)
                \/ (ends_with_any(w, PAST_TENSE_ENDINGS) /\ StrLen(w) > 3)
        IN  (~earlier /\ \E e \in PresentEndings : EndsWith(w, e) /\ Len(w) > Len(e))
                => (a.pos = "Verb" /\ a.verb_tense = "Present"
                        /\ a.verb_form = "Finite")

\* C22: for a text with words, lexical_diversity_index is 100 times the number
\* of distinct lower-cased word forms over total_words: it is above 0 and at
\* most 100, it is 100 exactly when the tokens are pairwise distinct
\* ignoring case, and tokens that differ only in case are one form
LexicalDiversityFormula ==
    pc \in {"analyzed", "classified"} /\ metrics.total_words > 0 =>
        LET ws == trace.tagged
            firsts == {i \in 1..Len(ws) :
                          \A j \in 1..(i - 1) : ToLowercase(ws[j]) # ToLowercase(ws[i])}
            ldi == metrics.lexical_diversity_index
        IN  /\ Len(ws) = metrics.total_words
            /\ ldi = (Cardinality(firsts) * Hundred) \div Len(ws)
            /\ ldi > 0
            /\ ldi <= Hundred
            /\ (ldi = Hundred) <=>
                   (\A i, j \in 1..Len(ws) :
                        i # j => ToLowercase(ws[i]) # ToLowercase(ws[j]))

\* a text of two tokens that differ only in case has been analysed: one form
\* in two words, 50 percent
LexicalDiversityFormulaWitness ==
    /\ pc = "analyzed"
    /\ Len(trace.tagged) = 2
    /\ trace.tagged[1] # trace.tagged[2]
    /\ ToLowercase(trace.tagged[1]) = ToLowercase(trace.tagged[2])
    /\ metrics.lexical_diversity_index = Hundred \div 2

\* C23: the classification depends on the ten feature fields only: a
\* TextMetrics that agrees with the classified one on total_words and the nine
\* feature percentages, and has every other field zeroed or every other field
\* at another value, gets the same group_scores, primary_diagnosis and
\* confidence
ClassificationReadsTenFields ==
    pc = "classified" =>
        LET kept == FeatureFields \cup {"total_words"}
            zeroed == [f \in DOMAIN metrics |-> IF f \in kept THEN metrics[f] ELSE 0]
            other == [f \in DOMAIN metrics |->
                         IF f \in kept THEN metrics[f]
                         ELSE IF f \in PercentFields THEN Hundred - metrics[f]
                         ELSE metrics[f] + 1]
        IN  /\ classify(zeroed) = result
            /\ classify(other) = result

\* a text has been classified whose metrics are not zero outside the ten
\* fields: the egocentrism index, the nouns and a sentence count
ClassificationReadsTenFieldsWitness ==
    /\ pc = "classified"
    /\ metrics.egocentrism_index > 0
    /\ metrics.nouns > 0
    /\ metrics.total_sentences > 0

\* C24: an analysed sentence without clause-boundary mark and without
\* conjunction token is Simple with one clause, however many of its tokens
\* are verbs; and a sentence is RunOn only if it has no conjunction, at least
\* one clause-boundary mark and at least two tokens tagged Verb
SimpleWithoutMarksRunOnWithMarks ==
    pc \in {"sentence", "text"} =>
        \A i \in 1..Len(sentences) :
            LET a == sentences[i]
                ws == sentence_extract_words(a.text)
                marks == Cardinality({k \in 1..Len(a.text) : a.text[k] \in ClauseMarks})
                conj == Cardinality({k \in 1..Len(ws) : ws[k] \in ALL_CONJUNCTIONS})
                verbs == Cardinality({k \in 1..Len(ws) : MorphAnalyze(ws[k]).pos = "Verb"})
            IN  /\ (marks = 0 /\ conj = 0) =>
                       (a.sentence_type = "Simple" /\ a.clause_count = 1)
                /\ (a.sentence_type = "RunOn") =>
                       (conj = 0 /\ marks >= 1 /\ verbs >= 2)

\* a sentence of two verbs, without mark or conjunction, has been analysed
\* and is Simple
SimpleWithoutMarksRunOnWithMarksWitness ==
    /\ pc = "sentence"
    /\ LET ws == sentence_extract_words(text)
       IN  /\ Cardinality({k \in 1..Len(ws) : MorphAnalyze(ws[k]).pos = "Verb"}) >= 2
           /\ \A k \in 1..Len(ws) : ws[k] \notin ALL_CONJUNCTIONS
    /\ \A k \in 1..Len(text) : text[k] \notin ClauseMarks
    /\ sentences[1].sentence_type = "Simple"
    /\ sentences[1].clause_count = 1

\* C25: in the metrics analyze returns, the simple, compound, complex and
\* run-on sentence counts add up to total_sentences: every sentence is counted
\* under exactly one type
SentenceTypesPartition ==
    pc \in {"analyzed", "classified"} =>
        /\ metrics.simple_sentences + metrics.compound_sentences
               + metrics.complex_sentences + metrics.run_on_sentences
             = metrics.total_sentences
        /\ metrics.total_sentences = Len(sentences)

\* a text of two sentences of different types has been analysed
SentenceTypesPartitionWitness ==
    /\ pc = "analyzed"
    /\ metrics.total_sentences = 2
    /\ metrics.simple_sentences = 1
    /\ metrics.compound_sentences = 1

\* C26: when analyze returns total_words > 0 it returns total_sentences >= 1:
\* a text with a token holding a letter has a non-empty sentence fragment
WordsImplySentence ==
    pc \in {"analyzed", "classified"} /\ metrics.total_words > 0 =>
        metrics.total_sentences >= 1

\* a text that opens with a terminal mark and holds one word, unterminated,
\* has been analysed: one sentence
WordsImplySentenceWitness ==
    /\ pc = "analyzed"
    /\ text # <<>>
    /\ text[1] \in Terminal
    /\ text[Len(text)] \notin Terminal
    /\ metrics.total_words = 1
    /\ metrics.total_sentences = 1

FirstPersonSingularWithinEgocentrism ==
    pc \in {"analyzed", "classified"} =>
        /\ metrics.first_person_singular_pronouns <= metrics.egocentrism_index
        /\ ~trace.short_circuit =>
               \A i \in 1..Len(trace.tagged) :
                   LET a == RsAnalyze(trace.tagged[i])
                   IN  (count_pronoun(a, NewWordCounters).first_person_singular > 0
                            /\ a.pos = "Pronoun")
                           => a.is_egocentrism_marker

\* a text of a reflexive pronoun and a verb has been analysed: the pronoun is
\* counted as first person singular and as an egocentrism marker
FirstPersonSingularWithinEgocentrismWitness ==
    /\ pc = "analyzed"
    /\ metrics.total_words = 2
    /\ \E i \in 1..2 : trace.tagged[i] \in ReflexiveForms
    /\ metrics.first_person_singular_pronouns = Hundred \div 2
    /\ metrics.egocentrism_index = Hundred \div 2

RECURSIVE SumWordCount(_)
\* the sum of word_count over a Vec<SentenceAnalysis>
SumWordCount(sa) ==
    IF sa = <<>> THEN 0 ELSE Head(sa).word_count + SumWordCount(Tail(sa))

\* C29: the two tokenizers agree: for every text the word_count of the
\* sentences analyze_text returns add up to the total_words analyze reports
TokenizersAgree ==
    pc \in {"analyzed", "classified"} =>
        SumWordCount(analyze_text(text)) = metrics.total_words

\* C30: the reference metrics of each of the four groups (the Table 2 means
\* of ReferenceValues) are classified as that group
ReferenceMeansClassifiedAsOwnGroup ==
    pc = "classified" =>
        \A i \in 1..4 :
            metrics = ReferenceValues(Groups[i]) => result.primary_diagnosis = Groups[i]

====
